---- MODULE Spec2Model ----
(***************************************************************************)
(* Polypolish and its sibling tools (Repeatish/Maskimap/Poligner): the     *)
(* alignment-selection pipeline of repeatish/__main__.py and the pileup /  *)
(* consensus engine of polypolish/polish_targets.py.                       *)
(*                                                                         *)
(* Conventions of the model:                                               *)
(*  - a base or base-group (Python str) is a sequence of one-character     *)
(*    strings: 'A' is <<"A">>, 'CG' is <<"C","G">>, the gap '-' is <<"-">>;*)
(*  - a CIGAR is the list of (size, letter) parts that                     *)
(*    re.findall(r'\d+[MIDNSHP=X]') and int() give;                        *)
(*  - reference positions are 0-based as in the code; TLA+ sequences are   *)
(*    1-based, so target_seq[i] of the code is target_seq[i + 1] here;     *)
(*  - a read name 'name/1' or 'name/2' is the pair <<name, mate>>, where   *)
(*    name is the rank of the read-pair name in sorted order;              *)
(*  - a depth (Python float, sums of 1.0 / N) is kept as an exact number   *)
(*    of units of 1 / DepthUnit, DepthUnit being a common multiple of      *)
(*    every N that can occur.                                              *)
(***************************************************************************)
EXTENDS Integers, Sequences, FiniteSets, TLC

VARIABLES
    pc,                     \* position of main()
    alignments,             \* dict: read name -> list of Alignment
    read_order,             \* insertion order of the keys of alignments
    read_pair_names,        \* sorted list of read-pair names
    distribution,           \* insert-size distribution (percentile -> size)
    seed,                   \* args.seed
    rng,                    \* state of the global random generator
    mask_positions,         \* dict: target name -> set of masked positions
    insert_decision_count,  \* final_alignment_selection's counters
    random_decision_count,
    before,                 \* the alignments as they were before the last round
    run,                    \* 1 for the first run of main(), 2 for the repeat
    first_run,              \* what the first run ended with
    aligner_output,         \* the alignments the aligner reported (the input)
    target_index,           \* polish_target_sequences: next target to polish
    pileup,                 \* pileup of the target polished last
    depths_by_pos,          \* its depths
    new_bases,              \* its chosen base-group per position
    status_by_pos,          \* its per-position status
    changed_positions,      \* its changed positions
    printed,                \* the sequences printed so far
    call,                   \* a single function under test: its name and arguments
    outcome                 \* what the function under test returned or raised

vars == <<pc, alignments, read_order, read_pair_names, distribution, seed, rng,
          mask_positions, insert_decision_count, random_decision_count, before,
          run, first_run, aligner_output, target_index, pileup, depths_by_pos, new_bases,
          status_by_pos, changed_positions, printed, call, outcome>>

----------------------------------------------------------------------------
(* Bounds of the model. *)

\* the largest number of alignments the aligner reports for one read
MaxAlign == 2

\* seeds 0 .. MaxSeed are tried for --seed
MaxSeed == 1

\* the largest number of operations of a CIGAR given to a function under test
MaxOps == 2

\* the largest length of one CIGAR operation given to a function under test
MaxSize == 2

\* the largest insert size given to score_insert_size
MaxInsert == 20

\* the largest number of insert sizes in a sample given to get_distribution
MaxSample == 4

\* the largest value of a SAM flags field given to has_flag
MaxFlags == 2047

----------------------------------------------------------------------------
(* Generic helpers. *)

Max(a, b) == IF a >= b THEN a ELSE b

Min(a, b) == IF a <= b THEN a ELSE b

RECURSIVE Gcd(_, _)
Gcd(a, b) == IF b = 0 THEN a ELSE Gcd(b, a % b)

RECURSIVE LcmUpTo(_)
LcmUpTo(n) == IF n <= 1 THEN 1 ELSE (LcmUpTo(n - 1) * n) \div Gcd(LcmUpTo(n - 1), n)

\* one unit of depth is 1 / DepthUnit
DepthUnit == LcmUpTo(MaxAlign)

Last(s) == s[Len(s)]

Front(s) == SubSeq(s, 1, Len(s) - 1)

RECURSIVE Repeat(_, _)
Repeat(x, n) == IF n <= 0 THEN <<>> ELSE <<x>> \o Repeat(x, n - 1)

\* the sub-lists of s (order kept) with at most n elements
RECURSIVE SubLists(_, _)
SubLists(s, n) ==
    IF s = <<>> \/ n = 0 THEN {<<>>}
    ELSE SubLists(Tail(s), n)
         \cup {<<Head(s)>> \o t : t \in SubLists(Tail(s), n - 1)}

----------------------------------------------------------------------------
(* alignment.py: the Alignment class and the CIGAR functions. *)

get_ref_end_loop_with_insertions(ref_end, cigar_parts) ==
    LET RECURSIVE Go(_, _)
        Go(e, k) ==
            IF k > Len(cigar_parts) THEN e
            ELSE IF cigar_parts[k][2] \in {"M", "D", "N", "I", "X"}
            THEN Go(e + cigar_parts[k][1], k + 1)
            ELSE Go(e, k + 1)
    IN Go(ref_end, 1)

get_ref_end_loop(ref_end, cigar_parts) ==
    LET RECURSIVE Go(_, _)
        Go(e, k) ==
            IF k > Len(cigar_parts) THEN e
            ELSE LET size == cigar_parts[k][1]
                     letter == cigar_parts[k][2]
                 IN IF letter \in {"M", "D", "N", "=", "X"}
                    THEN Go(e + size, k + 1)
                    ELSE Go(e, k + 1)
    IN Go(ref_end, 1)

get_ref_end(ref_start, cigar) == get_ref_end_loop(ref_start, cigar)

RECURSIVE get_expanded_cigar(_)
get_expanded_cigar(cigar) ==
    IF cigar = <<>> THEN <<>>
    ELSE Repeat(cigar[1][2], cigar[1][1]) \o get_expanded_cigar(Tail(cigar))

\* Alignment.__init__: the fields this model uses
Alignment(ref_name, ref_start, cigar, read_seq) ==
    [ref_name |-> ref_name, ref_start |-> ref_start, cigar |-> cigar,
     ref_end |-> get_ref_end(ref_start, cigar), read_seq |-> read_seq]

get_read_bases_insertions_apart(a) ==
    LET expanded_cigar == get_expanded_cigar(a.cigar)
        RECURSIVE Go(_, _, _)
        Go(k, i, read_bases) ==
            IF k > Len(expanded_cigar) THEN read_bases
            ELSE IF expanded_cigar[k] = "D"
            THEN Go(k + 1, i, Append(read_bases, <<"-">>))
            ELSE Go(k + 1, i + 1, Append(read_bases, <<a.read_seq[i + 1]>>))
    IN Go(1, 0, <<>>)

get_read_bases_for_each_target_base(a) ==
    LET expanded_cigar == get_expanded_cigar(a.cigar)
        RECURSIVE Go(_, _, _)
        Go(k, i, read_bases) ==
            IF k > Len(expanded_cigar) THEN read_bases
            ELSE LET c == expanded_cigar[k]
                 IN IF c = "M"
                    THEN Go(k + 1, i + 1, Append(read_bases, <<a.read_seq[i + 1]>>))
                    ELSE IF c = "I"
                    THEN Go(k + 1, i + 1,
                            [read_bases EXCEPT ![Len(read_bases)] =
                                 Append(@, a.read_seq[i + 1])])
                    ELSE Go(k + 1, i, Append(read_bases, <<"-">>))
    IN Go(1, 0, <<>>)

----------------------------------------------------------------------------
(* The inputs: the assembly and the alignments the aligner can report. *)

TargetSeqs ==
    <<  <<"t1", <<"A","C","G","T","A","A","C","T","T","A","G","C">> >>,
        <<"t2", <<"A","C","G","T","A","C">> >>  >>

TargetNames == {TargetSeqs[k][1] : k \in 1..Len(TargetSeqs)}

target_seqs_dict == [n \in TargetNames |->
    (CHOOSE k \in 1..Len(TargetSeqs) : TargetSeqs[k][1] = n) ]

TargetSeqOf(n) == TargetSeqs[target_seqs_dict[n]][2]

Seq1 == <<"A","C","G","T","A">>
Seq2 == <<"T","T","A","G","C">>
Seq3 == <<"A","A","A","A">>

\* end-to-end placements of the read sequences on the assembly
Candidates1 ==
    << Alignment("t1", 0, << <<5, "M">> >>, Seq1),
       Alignment("t1", 5, << <<5, "M">> >>, Seq1),
       Alignment("t2", 0, << <<2, "M">>, <<1, "I">>, <<2, "M">> >>, Seq1) >>

Candidates2 ==
    << Alignment("t1", 7, << <<5, "M">> >>, Seq2),
       Alignment("t1", 3, << <<5, "M">> >>, Seq2),
       Alignment("t1", 6, << <<2, "M">>, <<1, "D">>, <<3, "M">> >>, Seq2) >>

Candidates3 ==
    << Alignment("t1", 8, << <<4, "M">> >>, Seq3),
       Alignment("t1", 2, << <<1, "M">>, <<1, "D">>, <<3, "M">> >>, Seq3),
       Alignment("t2", 1, << <<2, "M">>, <<1, "I">>, <<1, "M">> >>, Seq3) >>

----------------------------------------------------------------------------
(* polish_targets.py / mask_targets.py: the pileup. *)

\* dict.items(): the (key, value) pairs of a dict in insertion order
DictItems(order, dict) == [k \in 1..Len(order) |-> <<order[k], dict[order[k]]>>]

trim_trailing_run_only(aligned_bases) ==
    LET RECURSIVE PopRun(_, _)
        PopRun(l, last_base) ==
            IF l = <<>> THEN [ok |-> FALSE, bases |-> <<>>]
            ELSE IF Last(l) = last_base THEN PopRun(Front(l), last_base)
            ELSE [ok |-> TRUE, bases |-> l]
    IN IF aligned_bases = <<>> THEN [ok |-> FALSE, bases |-> <<>>]
       ELSE PopRun(aligned_bases, Last(aligned_bases))

\* the homopolymer-tail trimming of get_pileup:
\*     last_base = aligned_bases[-1]
\*     while aligned_bases[-1] == last_base: aligned_bases.pop()
\*     aligned_bases.pop()
\* The result is [ok |-> TRUE, bases |-> ...], or ok = FALSE when aligned_bases[-1]
\* is evaluated on an empty list (IndexError).
trim_aligned_bases(aligned_bases) ==
    LET RECURSIVE PopRun(_, _)
        PopRun(l, last_base) ==
            IF l = <<>> THEN [ok |-> FALSE, bases |-> <<>>]
            ELSE IF Last(l) = last_base THEN PopRun(Front(l), last_base)
            ELSE [ok |-> TRUE, bases |-> l]
    IN IF aligned_bases = <<>> THEN [ok |-> FALSE, bases |-> <<>>]
       ELSE LET r == PopRun(aligned_bases, Last(aligned_bases))
            IN IF r.ok THEN [ok |-> TRUE, bases |-> Front(r.bases)] ELSE r

depth_contribution_whole(read_alignments) == DepthUnit

\* depth_contribution = 1.0 / len(read_alignments), in units of 1 / DepthUnit
depth_contribution(read_alignments) == DepthUnit \div Len(read_alignments)

\* the loop with the counts alone
add_to_pileup_counts_only(acc, a, aligned_bases, contribution) ==
    LET RECURSIVE Go(_, _)
        Go(st, i) ==
            IF i >= Len(aligned_bases) THEN st
            ELSE LET bases == aligned_bases[i + 1]
                     pos == a.ref_start + i
                     counts == st.pileup[pos]
                     new_counts ==
                         IF bases \in DOMAIN counts
                         THEN [counts EXCEPT ![bases] = @ + 1]
                         ELSE [b \in DOMAIN counts \cup {bases} |->
                                   IF b = bases THEN 1 ELSE counts[b]]
                 IN Go([st EXCEPT !.pileup[pos] = new_counts], i + 1)
    IN Go(acc, 0)

\* the loop 'for i, bases in enumerate(aligned_bases)' of get_pileup
add_to_pileup(acc, a, aligned_bases, contribution) ==
    LET RECURSIVE Go(_, _)
        Go(st, i) ==
            IF i >= Len(aligned_bases) THEN st
            ELSE LET bases == aligned_bases[i + 1]
                     pos == a.ref_start + i
                     counts == st.pileup[pos]
                     new_counts ==
                         IF bases \in DOMAIN counts
                         THEN [counts EXCEPT ![bases] = @ + 1]
                         ELSE [b \in DOMAIN counts \cup {bases} |->
                                   IF b = bases THEN 1 ELSE counts[b]]
                 IN Go([st EXCEPT !.pileup[pos] = new_counts,
                                  !.depths_by_pos[pos] = @ + contribution],
                       i + 1)
    IN Go(acc, 0)

\* get_pileup: [ok, pileup, depths_by_pos]; ok = FALSE when the trimming raised
get_pileup(items, target_name, target_seq) ==
    LET positions == 0..(Len(target_seq) - 1)
        init == [ok |-> TRUE,
                 pileup |-> [i \in positions |-> << >>],
                 depths_by_pos |-> [i \in positions |-> 0]]
        RECURSIVE Reads(_, _)
        RECURSIVE Aligns(_, _, _)
        Aligns(acc, read_alignments, k) ==
            IF ~acc.ok \/ k > Len(read_alignments) THEN acc
            ELSE LET a == read_alignments[k]
                 IN IF a.ref_name # target_name
                    THEN Aligns(acc, read_alignments, k + 1)
                    ELSE LET trimmed ==
                                 trim_aligned_bases(get_read_bases_for_each_target_base(a))
                         IN IF ~trimmed.ok THEN [acc EXCEPT !.ok = FALSE]
                            ELSE Aligns(add_to_pileup(acc, a, trimmed.bases,
                                            depth_contribution(read_alignments)),
                                        read_alignments, k + 1)
        Reads(acc, r) ==
            IF ~acc.ok \/ r > Len(items) THEN acc
            ELSE Reads(Aligns(acc, items[r][2], 1), r + 1)
    IN Reads(init, 1)

----------------------------------------------------------------------------
(* polypolish/polish_targets.py: the consensus. *)

\* valid_bases of polish_target_sequence: target_count = 0.5 * depth, and
\* c >= target_count is 2 * c >= depth (depth in units of 1 / DepthUnit)
valid_bases(read_base_counts, depth) ==
    IF depth > 0
    THEN {b \in DOMAIN read_base_counts : 2 * read_base_counts[b] * DepthUnit >= depth}
    ELSE {}

polish_position_first_valid(read_base_counts, depth, ref_base) ==
    LET valid == valid_bases(read_base_counts, depth)
    IN IF Cardinality(valid) = 0
       THEN [new_base |-> ref_base, status |-> "no_reads"]
       ELSE LET new_base == CHOOSE b \in valid : b # ref_base \/ valid = {ref_base}
            IN [new_base |-> new_base,
                status |-> IF new_base = ref_base THEN "kept" ELSE "changed"]

polish_position_flag_inverted(read_base_counts, depth, ref_base) ==
    LET valid == valid_bases(read_base_counts, depth)
    IN IF Cardinality(valid) = 0
       THEN [new_base |-> ref_base, status |-> "no_reads"]
       ELSE IF Cardinality(valid) = 1
       THEN LET new_base == CHOOSE b \in valid : TRUE
            IN [new_base |-> new_base,
                status |-> IF new_base # ref_base THEN "kept" ELSE "changed"]
       ELSE [new_base |-> ref_base, status |-> "multiple"]

\* the body of the loop over the positions: [new_base, status]
polish_position(read_base_counts, depth, ref_base) ==
    LET valid == valid_bases(read_base_counts, depth)
    IN IF Cardinality(valid) = 0
       THEN [new_base |-> ref_base, status |-> "no_reads"]
       ELSE IF Cardinality(valid) = 1
       THEN LET new_base == CHOOSE b \in valid : TRUE
            IN [new_base |-> new_base,
                status |-> IF new_base = ref_base THEN "kept" ELSE "changed"]
       ELSE [new_base |-> ref_base, status |-> "multiple"]

RECURSIVE join_keeping_gaps(_)
join_keeping_gaps(bases) ==
    IF bases = <<>> THEN <<>>
    ELSE Head(bases) \o join_keeping_gaps(Tail(bases))

\* ''.join(new_bases).replace('-', '')
RECURSIVE join_without_gaps(_)
join_without_gaps(bases) ==
    IF bases = <<>> THEN <<>>
    ELSE SelectSeq(Head(bases), LAMBDA ch : ch # "-") \o join_without_gaps(Tail(bases))

----------------------------------------------------------------------------
(* The reads of a run and the alignments the aligner reports for them. *)

\* the read-pair names of the alignment-selection runs, and of the polishing runs
SelectionNames == {1, 2}

PolishNames == {1, 2, 3}

\* the placements the aligner can report for a read: the reads of one file share
\* a sequence, except that the second read of pair 2 is a homopolymer; the
\* reads of pair 3 have one placement each
CandidatesOf(read) ==
    IF read[1] = 3 THEN (IF read[2] = 1 THEN SubSeq(Candidates1, 2, 2)
                                         ELSE SubSeq(Candidates2, 2, 2))
    ELSE IF read[2] = 1 THEN Candidates1
    ELSE IF read[1] = 2 THEN Candidates3
    ELSE Candidates2

\* sorted(names)
RECURSIVE sorted(_)
sorted(names) ==
    IF names = {} THEN <<>>
    ELSE LET least == CHOOSE n \in names : \A m \in names : n <= m
         IN <<least>> \o sorted(names \ {least})

\* the keys of the alignments dict in insertion order: name/1, name/2 per pair
RECURSIVE read_names_in_order(_)
read_names_in_order(pair_names) ==
    IF pair_names = <<>> THEN <<>>
    ELSE << <<Head(pair_names), 1>>, <<Head(pair_names), 2>> >>
         \o read_names_in_order(Tail(pair_names))

ReadsOf(names) == names \X {1, 2}

\* every alignment set the aligner can report for the reads in order: each
\* read gets a sub-list of at most MaxAlign of its placements
RECURSIVE AlignmentSets(_)
AlignmentSets(order) ==
    IF order = <<>> THEN {<< >>}
    ELSE {(Head(order) :> l) @@ f :
              l \in SubLists(CandidatesOf(Head(order)), MaxAlign),
              f \in AlignmentSets(Tail(order))}

NoDistribution == << >>

NoPileup == << >>

\* no function is under test in a run of a main()
NoCall == << >>

----------------------------------------------------------------------------
(* insert_size.py: scoring and the insert-size round. *)

\* the percentiles of get_distribution, the keys of a distribution
Percentiles ==
    <<"0.001", "0.01", "0.1", "1", "10", "50", "90", "99", "99.9", "99.99", "99.999">>

MakeDistribution(values) ==
    [p \in {Percentiles[k] : k \in 1..Len(Percentiles)} |->
        values[CHOOSE k \in 1..Len(Percentiles) : Percentiles[k] = p]]

\* the insert-size distributions of the runs
Distributions ==
    { MakeDistribution(<<5, 7, 8, 9, 11, 12, 13, 14, 15, 16, 17>>),
      MakeDistribution(<<4, 5, 6, 6, 7, 7, 7, 8, 9, 10, 11>>) }

get_insert_size(alignment_1, alignment_2) ==
    LET starts_ends == {alignment_1.ref_start, alignment_1.ref_end,
                        alignment_2.ref_start, alignment_2.ref_end}
        highest == CHOOSE x \in starts_ends : \A y \in starts_ends : y <= x
        lowest == CHOOSE x \in starts_ends : \A y \in starts_ends : x <= y
    IN highest - lowest

score_insert_size_widest_first(insert_size, dist) ==
    IF dist["0.001"] <= insert_size /\ insert_size <= dist["99.999"] THEN 1
    ELSE IF dist["0.01"] <= insert_size /\ insert_size <= dist["99.99"] THEN 2
    ELSE IF dist["0.1"] <= insert_size /\ insert_size <= dist["99.9"] THEN 3
    ELSE IF dist["1"] <= insert_size /\ insert_size <= dist["99"] THEN 4
    ELSE IF dist["10"] <= insert_size /\ insert_size <= dist["90"] THEN 5
    ELSE 0

score_insert_size(insert_size, dist) ==
    IF dist["10"] <= insert_size /\ insert_size <= dist["90"] THEN 5
    ELSE IF dist["1"] <= insert_size /\ insert_size <= dist["99"] THEN 4
    ELSE IF dist["0.1"] <= insert_size /\ insert_size <= dist["99.9"] THEN 3
    ELSE IF dist["0.01"] <= insert_size /\ insert_size <= dist["99.99"] THEN 2
    ELSE IF dist["0.001"] <= insert_size /\ insert_size <= dist["99.999"] THEN 1
    ELSE 0

max_score_of_highest_band(alignments_1, alignments_2, dist) == 5

\* max(all_scores) over every combination of the two lists (both non-empty)
max_score_of(alignments_1, alignments_2, dist) ==
    LET RECURSIVE Inner(_, _, _)
        RECURSIVE Outer(_, _)
        Inner(best, a_1, k) ==
            IF k > Len(alignments_2) THEN best
            ELSE Inner(Max(best,
                           score_insert_size(get_insert_size(a_1, alignments_2[k]), dist)),
                       a_1, k + 1)
        Outer(best, j) ==
            IF j > Len(alignments_1) THEN best
            ELSE Outer(Inner(best, alignments_1[j], 1), j + 1)
    IN Outer(0, 1)

select_good_alignments_within_bands(alignments_1, alignments_2, dist, min_score) ==
    SelectSeq(alignments_1, LAMBDA a_1 :
        \E k \in 1..Len(alignments_2) :
            score_insert_size(get_insert_size(a_1, alignments_2[k]), dist)
                >= Max(min_score, 1))

select_good_alignments_strict(alignments_1, alignments_2, dist, min_score) ==
    SelectSeq(alignments_1, LAMBDA a_1 :
        \E k \in 1..Len(alignments_2) :
            score_insert_size(get_insert_size(a_1, alignments_2[k]), dist) > min_score)

select_good_alignments(alignments_1, alignments_2, dist, min_score) ==
    SelectSeq(alignments_1, LAMBDA a_1 :
        \E k \in 1..Len(alignments_2) :
            score_insert_size(get_insert_size(a_1, alignments_2[k]), dist) >= min_score)

\* the body of the loop of select_alignments_using_insert_size
select_using_insert_size_one_pair(al, name, dist) ==
    LET name_1 == <<name, 1>>
        name_2 == <<name, 2>>
        alignments_1 == al[name_1]
        alignments_2 == al[name_2]
        count_1 == Len(alignments_1)
        count_2 == Len(alignments_2)
    IN IF count_1 >= 1 /\ count_2 >= 1 /\ count_1 + count_2 >= 3
       THEN LET min_score == max_score_of(alignments_1, alignments_2, dist) - 2
                good_1 == select_good_alignments(alignments_1, alignments_2, dist, min_score)
                good_2 == select_good_alignments(alignments_2, alignments_1, dist, min_score)
            IN [al EXCEPT ![name_1] = good_1, ![name_2] = good_2]
       ELSE al

RECURSIVE select_alignments_using_insert_size_loop(_, _, _)
select_alignments_using_insert_size_loop(al, names, dist) ==
    IF names = <<>> THEN al
    ELSE select_alignments_using_insert_size_loop(
             select_using_insert_size_one_pair(al, Head(names), dist), Tail(names), dist)

----------------------------------------------------------------------------
(* mask_targets.py: masking and the reference-informed round. *)

\* get_mask_positions: [ok, mask]; match_count / depth < 0.5 is
\* 2 * match_count < depth (depth in units of 1 / DepthUnit)
get_mask_positions(items, target_name, target_seq) ==
    LET masked(p) ==
            {i \in 0..(Len(target_seq) - 1) :
                LET read_base_counts == p.pileup[i]
                    depth == p.depths_by_pos[i]
                    ref_base == <<target_seq[i + 1]>>
                    match_count == IF ref_base \in DOMAIN read_base_counts
                                   THEN read_base_counts[ref_base] ELSE 0
                IN depth > 0 /\ 2 * match_count * DepthUnit < depth}
        result(p) == IF p.ok THEN [ok |-> TRUE, mask |-> masked(p)]
                     ELSE [ok |-> FALSE, mask |-> {}]
    IN result(get_pileup(items, target_name, target_seq))

\* mask_target_sequences: [ok, mask_positions]
mask_target_sequences(items, targets) ==
    LET RECURSIVE Go(_, _)
        Go(acc, k) ==
            IF ~acc.ok \/ k > Len(targets) THEN acc
            ELSE LET m == get_mask_positions(items, targets[k][1], targets[k][2])
                 IN Go([ok |-> m.ok,
                        mask_positions |->
                            (targets[k][1] :> m.mask) @@ acc.mask_positions], k + 1)
    IN Go([ok |-> TRUE, mask_positions |-> << >>], 1)

\* the error count of one alignment in choose_best_alignments_one_read
error_count_of(a, mask, targets) ==
    LET ref_seq == SubSeq(TargetSeqs[targets[a.ref_name]][2], a.ref_start + 1, a.ref_end)
        aligned_bases == get_read_bases_for_each_target_base(a)
        RECURSIVE Go(_, _, _, _)
        Go(rs, ab, k, error_count) ==
            IF k > Len(rs) \/ k > Len(ab) THEN error_count
            ELSE IF <<rs[k]>> # ab[k] /\ (a.ref_start + k - 1) \notin mask[a.ref_name]
            THEN Go(rs, ab, k + 1, error_count + 1)
            ELSE Go(rs, ab, k + 1, error_count)
    IN Go(ref_seq, aligned_bases, 1, 0)

\* the loop of choose_best_alignments_one_read; best_error_count = -1 is None
choose_best_first_only(read_alignments, mask, targets) ==
    LET RECURSIVE Go(_, _, _)
        Go(k, best_error_count, best_alignments) ==
            IF k > Len(read_alignments) THEN best_alignments
            ELSE LET a == read_alignments[k]
                     error_count == error_count_of(a, mask, targets)
                 IN IF best_error_count = -1 \/ error_count < best_error_count
                    THEN Go(k + 1, error_count, <<a>>)
                    ELSE Go(k + 1, best_error_count, best_alignments)
    IN Go(1, -1, <<>>)

choose_best_alignments_one_read(read_alignments, mask, targets) ==
    LET RECURSIVE Go(_, _, _)
        Go(k, best_error_count, best_alignments) ==
            IF k > Len(read_alignments) THEN best_alignments
            ELSE LET a == read_alignments[k]
                     error_count == error_count_of(a, mask, targets)
                 IN IF best_error_count = -1 \/ error_count < best_error_count
                    THEN Go(k + 1, error_count, <<a>>)
                    ELSE IF error_count = best_error_count
                    THEN Go(k + 1, best_error_count, Append(best_alignments, a))
                    ELSE Go(k + 1, best_error_count, best_alignments)
    IN Go(1, -1, <<>>)

\* alignment.py: the reads (not read pairs) with more than one alignment
RECURSIVE get_multi_alignment_read_names(_, _)
get_multi_alignment_read_names(names, al) ==
    IF names = <<>> THEN <<>>
    ELSE (IF Len(al[<<Head(names), 1>>]) > 1 THEN << <<Head(names), 1>> >> ELSE <<>>)
         \o (IF Len(al[<<Head(names), 2>>]) > 1 THEN << <<Head(names), 2>> >> ELSE <<>>)
         \o get_multi_alignment_read_names(Tail(names), al)

\* the loop of select_best_alignments
RECURSIVE select_best_alignments_loop(_, _, _, _)
select_best_alignments_loop(al, multi_names, mask, targets) ==
    IF multi_names = <<>> THEN al
    ELSE select_best_alignments_loop(
             [al EXCEPT ![Head(multi_names)] =
                  choose_best_alignments_one_read(al[Head(multi_names)], mask, targets)],
             Tail(multi_names), mask, targets)

----------------------------------------------------------------------------
(* The global random generator (Python's random module): a deterministic       *)
(* generator whose every draw is a function of its state and advances it.      *)

\* random.seed(seed): the state is set from the seed alone; entropy is the state
\* an unseeded generator starts from
random_seed_ignored(seed_value, entropy) == entropy

random_seed(seed_value, entropy) == (seed_value * 7 + 2) % 16

\* random.choice(seq): [value, rng]
random_choice(state, seq) ==
    [value |-> seq[(state % Len(seq)) + 1], rng |-> (state * 5 + 3) % 16]

----------------------------------------------------------------------------
(* insert_size.py: the final selection. *)

\* every (a_1, a_2) in the order of the two nested loops
all_pairs(alignments_1, alignments_2) ==
    [k \in 1..(Len(alignments_1) * Len(alignments_2)) |->
        <<alignments_1[((k - 1) \div Len(alignments_2)) + 1],
          alignments_2[((k - 1) % Len(alignments_2)) + 1]>>]

good_pairs_any_score(alignments_1, alignments_2, dist, max_score) ==
    all_pairs(alignments_1, alignments_2)

\* good_pairs of final_alignment_selection
good_pairs_of(alignments_1, alignments_2, dist, max_score) ==
    SelectSeq(all_pairs(alignments_1, alignments_2), LAMBDA pair :
        score_insert_size(get_insert_size(pair[1], pair[2]), dist) = max_score)

\* the first branch of final_alignment_selection: nothing to select
nothing_to_select_either(count_1, count_2) == count_1 <= 1 \/ count_2 <= 1

nothing_to_select(count_1, count_2) == count_1 <= 1 /\ count_2 <= 1

\* the body of the loop of final_alignment_selection; st is
\* [ok, al, rng, insert_decision_count, random_decision_count], ok = FALSE once
\* an assertion has failed
final_selection_one_pair(st, name, dist) ==
    LET name_1 == <<name, 1>>
        name_2 == <<name, 2>>
        alignments_1 == st.al[name_1]
        alignments_2 == st.al[name_2]
        count_1 == Len(alignments_1)
        count_2 == Len(alignments_2)
        one_mate(read_name, c) ==
            [st EXCEPT !.al[read_name] = <<c.value>>, !.rng = c.rng]
        both_mates(good_pairs, c) ==
            [st EXCEPT !.al[name_1] = <<c.value[1]>>,
                       !.al[name_2] = <<c.value[2]>>,
                       !.rng = c.rng,
                       !.insert_decision_count =
                           IF Len(good_pairs) = 1 THEN @ + 1 ELSE @,
                       !.random_decision_count =
                           IF Len(good_pairs) = 1 THEN @ ELSE @ + 1]
        choose_pair(good_pairs) ==
            IF Len(good_pairs) >= 1
            THEN both_mates(good_pairs, random_choice(st.rng, good_pairs))
            ELSE [st EXCEPT !.ok = FALSE]
    IN IF nothing_to_select(count_1, count_2) THEN st
       ELSE IF count_1 > 1 /\ count_2 = 0
       THEN one_mate(name_1, random_choice(st.rng, alignments_1))
       ELSE IF count_1 = 0 /\ count_2 > 1
       THEN one_mate(name_2, random_choice(st.rng, alignments_2))
       ELSE IF count_1 >= 1 /\ count_2 >= 1 /\ count_1 + count_2 >= 3
       THEN choose_pair(good_pairs_of(alignments_1, alignments_2, dist,
                                      max_score_of(alignments_1, alignments_2, dist)))
       ELSE [st EXCEPT !.ok = FALSE]

RECURSIVE final_alignment_selection_loop(_, _, _)
final_alignment_selection_loop(st, names, dist) ==
    IF names = <<>> \/ ~st.ok THEN st
    ELSE final_alignment_selection_loop(
             final_selection_one_pair(st, Head(names), dist), Tail(names), dist)

\* alignment.py: verify_no_multi_alignments' assertion over every pair
verify_no_multi_alignments_ok(al, names) ==
    \A k \in 1..Len(names) :
        Len(al[<<names[k], 1>>]) <= 1 /\ Len(al[<<names[k], 2>>]) <= 1

----------------------------------------------------------------------------
(* repeatish/__main__.py: main(), once, and once again on the same input. *)

Init ==
    /\ pc = "start"
    /\ read_pair_names = sorted(SelectionNames)
    /\ read_order = read_names_in_order(read_pair_names)
    /\ alignments \in AlignmentSets(read_order)
    /\ distribution \in Distributions
    /\ seed \in 0..MaxSeed
    /\ rng = 0
    /\ mask_positions = << >>
    /\ insert_decision_count = 0
    /\ random_decision_count = 0
    /\ before = alignments
    /\ run = 1
    /\ first_run = << >>
    /\ aligner_output = alignments
    /\ target_index = 1
    /\ pileup = NoPileup
    /\ depths_by_pos = NoPileup
    /\ new_bases = <<>>
    /\ status_by_pos = <<>>
    /\ changed_positions = {}
    /\ printed = <<>>
    /\ call = NoCall
    /\ outcome = NoCall

polish_vars == <<target_index, pileup, depths_by_pos, new_bases, status_by_pos,
                 changed_positions, printed>>

\* random.seed(args.seed), then the alignments are loaded
main_start ==
    /\ UNCHANGED <<call, outcome>>
    /\ pc = "start"
    /\ \E entropy \in 0..1 : rng' = random_seed(seed, entropy)
    /\ pc' = "insert_size"
    /\ UNCHANGED <<alignments, read_order, read_pair_names, distribution, seed,
                   mask_positions, insert_decision_count, random_decision_count,
                   before, run, first_run, aligner_output, polish_vars>>

select_alignments_using_insert_size ==
    /\ UNCHANGED <<call, outcome>>
    /\ pc = "insert_size"
    /\ before' = alignments
    /\ alignments' = select_alignments_using_insert_size_loop(
                         alignments, read_pair_names, distribution)
    /\ pc' = "mask"
    /\ UNCHANGED <<read_order, read_pair_names, distribution, seed, rng,
                   mask_positions, insert_decision_count, random_decision_count,
                   run, first_run, aligner_output, polish_vars>>

mask_targets ==
    /\ UNCHANGED <<call, outcome>>
    /\ pc = "mask"
    /\ \E m \in {mask_target_sequences(DictItems(read_order, alignments), TargetSeqs)} :
          IF m.ok
          THEN mask_positions' = m.mask_positions /\ pc' = "select_best"
          ELSE mask_positions' = mask_positions /\ pc' = "IndexError"
    /\ UNCHANGED <<alignments, read_order, read_pair_names, distribution, seed, rng,
                   insert_decision_count, random_decision_count, before,
                   run, first_run, aligner_output, polish_vars>>

select_best_alignments ==
    /\ UNCHANGED <<call, outcome>>
    /\ pc = "select_best"
    /\ before' = alignments
    /\ alignments' = select_best_alignments_loop(
                         alignments,
                         get_multi_alignment_read_names(read_pair_names, alignments),
                         mask_positions, target_seqs_dict)
    /\ pc' = "final"
    /\ UNCHANGED <<read_order, read_pair_names, distribution, seed, rng,
                   mask_positions, insert_decision_count, random_decision_count,
                   run, first_run, aligner_output, polish_vars>>

final_alignment_selection ==
    /\ UNCHANGED <<call, outcome>>
    /\ pc = "final"
    /\ before' = alignments
    /\ \E st \in {final_alignment_selection_loop(
                      [ok |-> TRUE, al |-> alignments, rng |-> rng,
                       insert_decision_count |-> 0, random_decision_count |-> 0],
                      read_pair_names, distribution)} :
          /\ alignments' = st.al
          /\ rng' = st.rng
          /\ insert_decision_count' = st.insert_decision_count
          /\ random_decision_count' = st.random_decision_count
          /\ pc' = IF st.ok THEN "verify"
                   ELSE "AssertionError in final_alignment_selection"
    /\ UNCHANGED <<read_order, read_pair_names, distribution, seed,
                   mask_positions, run, first_run, aligner_output, polish_vars>>

verify_no_multi_alignments ==
    /\ UNCHANGED <<call, outcome>>
    /\ pc = "verify"
    /\ pc' = IF verify_no_multi_alignments_ok(alignments, read_pair_names)
             THEN "done" ELSE "AssertionError in verify_no_multi_alignments"
    /\ UNCHANGED <<alignments, read_order, read_pair_names, distribution, seed, rng,
                   mask_positions, insert_decision_count, random_decision_count,
                   before, run, first_run, aligner_output, polish_vars>>

\* the same command is run a second time on the same input
run_again ==
    /\ UNCHANGED <<call, outcome>>
    /\ pc = "done"
    /\ run = 1
    /\ first_run' = [alignments |-> alignments,
                     insert_decision_count |-> insert_decision_count,
                     random_decision_count |-> random_decision_count]
    /\ run' = 2
    /\ alignments' = aligner_output
    /\ before' = aligner_output
    /\ mask_positions' = << >>
    /\ insert_decision_count' = 0
    /\ random_decision_count' = 0
    /\ pc' = "start"
    /\ UNCHANGED <<read_order, read_pair_names, distribution, seed, rng,
                   aligner_output, polish_vars>>

Next ==
    \/ main_start
    \/ select_alignments_using_insert_size
    \/ mask_targets
    \/ select_best_alignments
    \/ final_alignment_selection
    \/ verify_no_multi_alignments
    \/ run_again

Spec == Init /\ [][Next]_vars

----------------------------------------------------------------------------
(* polypolish/__main__.py: load the alignments, polish every target. *)

InitPolish ==
    /\ pc = "polish"
    /\ read_pair_names = sorted(PolishNames)
    /\ read_order = read_names_in_order(read_pair_names)
    /\ alignments \in AlignmentSets(read_order)
    /\ distribution = NoDistribution
    /\ seed = 0
    /\ rng = 0
    /\ mask_positions = << >>
    /\ insert_decision_count = 0
    /\ random_decision_count = 0
    /\ before = alignments
    /\ run = 1
    /\ first_run = << >>
    /\ aligner_output = alignments
    /\ target_index = 1
    /\ pileup = NoPileup
    /\ depths_by_pos = NoPileup
    /\ new_bases = <<>>
    /\ status_by_pos = <<>>
    /\ changed_positions = {}
    /\ printed = <<>>
    /\ call = NoCall
    /\ outcome = NoCall

\* the loop over the positions of polish_target_sequence
polish_positions(p, target_seq) ==
    [i \in 0..(Len(target_seq) - 1) |->
        polish_position(p.pileup[i], p.depths_by_pos[i], <<target_seq[i + 1]>>)]

\* polish_target_sequence for the next target of polish_target_sequences' loop
polish_target_sequence ==
    /\ UNCHANGED <<call, outcome>>
    /\ pc = "polish"
    /\ target_index <= Len(TargetSeqs)
    /\ LET target_name == TargetSeqs[target_index][1]
           target_seq == TargetSeqs[target_index][2]
       IN \E p \in {get_pileup(DictItems(read_order, alignments), target_name, target_seq)} :
          IF ~p.ok
          THEN /\ pc' = "IndexError"
               /\ UNCHANGED <<target_index, pileup, depths_by_pos, new_bases,
                              status_by_pos, changed_positions, printed>>
          ELSE \E chosen \in {polish_positions(p, target_seq)} :
               /\ pileup' = p.pileup
               /\ depths_by_pos' = p.depths_by_pos
               /\ new_bases' = [i \in 1..Len(target_seq) |-> chosen[i - 1].new_base]
               /\ status_by_pos' = [i \in 1..Len(target_seq) |-> chosen[i - 1].status]
               /\ changed_positions' =
                      {i \in 0..(Len(target_seq) - 1) : chosen[i].status = "changed"}
               /\ printed' = Append(printed,
                      <<target_name,
                        join_without_gaps([i \in 1..Len(target_seq) |->
                                               chosen[i - 1].new_base])>>)
               /\ target_index' = target_index + 1
               /\ pc' = "polish"
    /\ UNCHANGED <<alignments, read_order, read_pair_names, distribution, seed, rng,
                   mask_positions, insert_decision_count, random_decision_count,
                   before, run, first_run, aligner_output>>

\* polish_target_sequences returns once every target is polished
polish_finished ==
    /\ UNCHANGED <<call, outcome>>
    /\ pc = "polish"
    /\ target_index > Len(TargetSeqs)
    /\ pc' = "done"
    /\ UNCHANGED <<alignments, read_order, read_pair_names, distribution, seed, rng,
                   mask_positions, insert_decision_count, random_decision_count,
                   before, run, first_run, aligner_output, target_index, pileup,
                   depths_by_pos,
                   new_bases, status_by_pos, changed_positions, printed>>

NextPolish == polish_target_sequence \/ polish_finished

SpecPolish == InitPolish /\ [][NextPolish]_vars

----------------------------------------------------------------------------
(* Properties of the alignment selection (Spec).                             *)

Range(s) == {s[k] : k \in 1..Len(s)}

\* the insert-size score of a combination under the run's distribution
ScoreOf(a_1, a_2) == score_insert_size(get_insert_size(a_1, a_2), distribution)

\* the best score over every combination of two non-empty lists
BestScore(l_1, l_2) ==
    CHOOSE s \in 0..5 :
        /\ \E j \in 1..Len(l_1), k \in 1..Len(l_2) : ScoreOf(l_1[j], l_2[k]) = s
        /\ \A j \in 1..Len(l_1), k \in 1..Len(l_2) : ScoreOf(l_1[j], l_2[k]) <= s

\* the combinations that attain the best score
BestCombinations(l_1, l_2) ==
    {jk \in (1..Len(l_1)) \X (1..Len(l_2)) :
        ScoreOf(l_1[jk[1]], l_2[jk[2]]) = BestScore(l_1, l_2)}

\* a pair with an alignment for each mate and more than one combination
MultiCombination(l_1, l_2) ==
    Len(l_1) >= 1 /\ Len(l_2) >= 1 /\ Len(l_1) + Len(l_2) >= 3

\* C1: once final_alignment_selection has returned, every mate-qualified read
\* name maps to zero or one alignment, whatever the counts of the pair were
\* before, and the assertion of verify_no_multi_alignments does not fail.
C1_AtMostOneAlignmentPerRead ==
    /\ pc \in {"verify", "done"} =>
           \A r \in DOMAIN alignments : Len(alignments[r]) <= 1
    /\ pc # "AssertionError in verify_no_multi_alignments"

C1_Witness ==
    /\ pc = "done"
    /\ \E n \in SelectionNames :
           /\ Len(before[<<n, 1>>]) = 2
           /\ Len(before[<<n, 2>>]) = 1
    /\ \E n \in SelectionNames :
           /\ Len(before[<<n, 1>>]) = 2
           /\ Len(before[<<n, 2>>]) = 0

\* C4: select_alignments_using_insert_size replaces, for every pair with an
\* alignment for each mate and at least three in total, the first mate's list by
\* its alignments that have a partner scoring at least the pair's best score
\* minus 2, in their original order, and the second mate's list likewise, both
\* taken from the lists as they were before the round; the lists of every other
\* pair are unchanged.
C4_InsertSizeRoundKeepsNearBest ==
    pc = "mask" =>
        \A n \in SelectionNames :
            LET l_1 == before[<<n, 1>>]
                l_2 == before[<<n, 2>>]
            IN IF MultiCombination(l_1, l_2)
               THEN /\ alignments[<<n, 1>>] =
                           SelectSeq(l_1, LAMBDA a : \E k \in 1..Len(l_2) :
                               ScoreOf(a, l_2[k]) >= BestScore(l_1, l_2) - 2)
                    /\ alignments[<<n, 2>>] =
                           SelectSeq(l_2, LAMBDA b : \E j \in 1..Len(l_1) :
                               ScoreOf(l_1[j], b) >= BestScore(l_1, l_2) - 2)
               ELSE /\ alignments[<<n, 1>>] = l_1
                    /\ alignments[<<n, 2>>] = l_2

\* the round drops an alignment of one read and keeps an alignment whose best
\* partner scores exactly 2 below the pair's best
C4_Witness ==
    /\ pc = "mask"
    /\ \E r \in DOMAIN alignments : Len(alignments[r]) < Len(before[r])
    /\ \E n \in SelectionNames :
           LET l_1 == before[<<n, 1>>]
               l_2 == before[<<n, 2>>]
           IN /\ MultiCombination(l_1, l_2)
              /\ \E k \in 1..Len(alignments[<<n, 2>>]) :
                     \A j \in 1..Len(l_1) :
                         ScoreOf(l_1[j], alignments[<<n, 2>>][k])
                             <= BestScore(l_1, l_2) - 2

\* the pairs final_alignment_selection decides by insert size
DecidedPairs == {n \in SelectionNames :
                     MultiCombination(before[<<n, 1>>], before[<<n, 2>>])}

\* C5: final_alignment_selection keeps, for every pair with an alignment for
\* each mate and more than one combination, a combination of the lists it was
\* given whose insert-size score is the maximum over all combinations; the
\* decision counts as an insert-size decision when exactly one combination
\* attains the maximum and as a random decision when more do, so that the two
\* counters add up to the number of such pairs. When one mate has more than one
\* alignment and the other has none, the kept alignment is one of the mate's
\* alignments and the other mate's list stays empty.
C5_FinalSelectionKeepsBestCombination ==
    pc = "verify" =>
        /\ \A n \in SelectionNames :
               LET l_1 == before[<<n, 1>>]
                   l_2 == before[<<n, 2>>]
                   k_1 == alignments[<<n, 1>>]
                   k_2 == alignments[<<n, 2>>]
               IN /\ MultiCombination(l_1, l_2) =>
                         /\ Len(k_1) = 1 /\ k_1[1] \in Range(l_1)
                         /\ Len(k_2) = 1 /\ k_2[1] \in Range(l_2)
                         /\ ScoreOf(k_1[1], k_2[1]) = BestScore(l_1, l_2)
                  /\ (Len(l_1) > 1 /\ Len(l_2) = 0) =>
                         /\ Len(k_1) = 1 /\ k_1[1] \in Range(l_1)
                         /\ k_2 = <<>>
                  /\ (Len(l_1) = 0 /\ Len(l_2) > 1) =>
                         /\ Len(k_2) = 1 /\ k_2[1] \in Range(l_2)
                         /\ k_1 = <<>>
        /\ insert_decision_count =
               Cardinality({n \in DecidedPairs :
                   Cardinality(BestCombinations(before[<<n, 1>>], before[<<n, 2>>])) = 1})
        /\ random_decision_count =
               Cardinality({n \in DecidedPairs :
                   Cardinality(BestCombinations(before[<<n, 1>>], before[<<n, 2>>])) > 1})
        /\ insert_decision_count + random_decision_count = Cardinality(DecidedPairs)

\* one pair is decided by insert size among combinations of different scores,
\* the other by a random choice
C5_Witness ==
    /\ pc = "verify"
    /\ insert_decision_count = 1
    /\ random_decision_count = 1
    /\ \E n \in SelectionNames :
           LET l_1 == before[<<n, 1>>]
               l_2 == before[<<n, 2>>]
           IN /\ MultiCombination(l_1, l_2)
              /\ \E j \in 1..Len(l_1), k \in 1..Len(l_2) :
                     ScoreOf(l_1[j], l_2[k]) < BestScore(l_1, l_2)

\* the error count of an alignment: its positions where the read's bases differ
\* from the reference base and that are not masked
UnmaskedMismatches(a) ==
    Cardinality({i \in a.ref_start..(a.ref_end - 1) :
        /\ get_read_bases_for_each_target_base(a)[i - a.ref_start + 1]
               # <<TargetSeqOf(a.ref_name)[i + 1]>>
        /\ i \notin mask_positions[a.ref_name]})

\* C6: select_best_alignments leaves every read with at most one alignment as
\* it was, and gives every read with more than one alignment exactly its
\* alignments with the fewest unmasked mismatches, all of them when they tie,
\* in their original order.
C6_ReferenceRoundKeepsFewestErrors ==
    pc = "final" =>
        \A r \in DOMAIN alignments :
            IF Len(before[r]) > 1
            THEN alignments[r] =
                     SelectSeq(before[r], LAMBDA a : \A k \in 1..Len(before[r]) :
                         UnmaskedMismatches(a) <= UnmaskedMismatches(before[r][k]))
            ELSE alignments[r] = before[r]

\* a read keeps two tied alignments, another read loses its worse alignment
\* although that comes first, and a mismatch is masked
C6_Witness ==
    /\ pc = "final"
    /\ \E r \in DOMAIN alignments : Len(before[r]) = 2 /\ Len(alignments[r]) = 2
    /\ \E r \in DOMAIN alignments :
           Len(before[r]) = 2 /\ alignments[r] = <<before[r][2]>>
    /\ \E n \in TargetNames : mask_positions[n] # {}

----------------------------------------------------------------------------
(* Properties of the polishing (SpecPolish).                                 *)

\* --min_depth and --min_fraction of polypolish (min_fraction as a percentage)
min_depth == 5

min_fraction_percent == 50

\* a target has been polished: its pileup, depths and new bases are in the state
Polished == target_index > 1 /\ pc \in {"polish", "done"}

PolishedName == TargetSeqs[target_index - 1][1]

PolishedSeq == TargetSeqs[target_index - 1][2]

PolishedPositions == 0..(Len(PolishedSeq) - 1)

\* the reference base of a position, as a base-group
RefBase(i) == <<PolishedSeq[i + 1]>>

\* the length of the longest run of the last base-group at the end of a list
TrailingRun(bases) ==
    CHOOSE n \in 1..Len(bases) :
        /\ \A j \in (Len(bases) - n + 1)..Len(bases) : bases[j] = bases[Len(bases)]
        /\ n = Len(bases) \/ bases[Len(bases) - n] # bases[Len(bases)]

\* the base-groups an alignment puts on the pileup: all but the trailing run
\* and one more
KeptBases(a) ==
    LET bases == get_read_bases_for_each_target_base(a)
    IN SubSeq(bases, 1, Len(bases) - TrailingRun(bases) - 1)

\* the alignments <<read, k>> that put a base-group on position i of the
\* polished target
Contributors(i) ==
    {rk \in UNION {{r} \X (1..Len(alignments[r])) : r \in DOMAIN alignments} :
        LET a == alignments[rk[1]][rk[2]]
        IN /\ a.ref_name = PolishedName
           /\ a.ref_start <= i
           /\ i < a.ref_start + Len(KeptBases(a))}

ContributedGroup(rk, i) ==
    LET a == alignments[rk[1]][rk[2]]
    IN KeptBases(a)[i - a.ref_start + 1]

\* the sum of 1 / N, in units of 1 / DepthUnit, over a set of alignments, N
\* being the number of alignments of the alignment's read
RECURSIVE SumOfShares(_)
SumOfShares(S) ==
    IF S = {} THEN 0
    ELSE LET rk == CHOOSE x \in S : TRUE
         IN (DepthUnit \div Len(alignments[rk[1]])) + SumOfShares(S \ {rk})

\* the base-groups of a position that polish_target_sequence counts as valid
ValidAt(i) == valid_bases(pileup[i], depths_by_pos[i])

\* C2: at every position polish_target_sequence puts out the reference base when
\* no base-group is valid, the valid base-group when exactly one is, and the
\* reference base when more than one is; the output differs from the reference
\* only where exactly one base-group is valid.
C2_OutputFollowsValidCount ==
    Polished =>
        \A i \in PolishedPositions :
            /\ Cardinality(ValidAt(i)) = 0 => new_bases[i + 1] = RefBase(i)
            /\ Cardinality(ValidAt(i)) = 1 => new_bases[i + 1] \in ValidAt(i)
            /\ Cardinality(ValidAt(i)) > 1 => new_bases[i + 1] = RefBase(i)
            /\ new_bases[i + 1] # RefBase(i) => Cardinality(ValidAt(i)) = 1

\* one target has a position without a valid base-group, one with a single
\* valid base-group that differs from the reference, and one with two
C2_Witness ==
    /\ Polished
    /\ \E i \in PolishedPositions : Cardinality(ValidAt(i)) = 0
    /\ \E i \in PolishedPositions :
           Cardinality(ValidAt(i)) = 1 /\ new_bases[i + 1] # RefBase(i)
    /\ \E i \in PolishedPositions :
           Cardinality(ValidAt(i)) = 2 /\ status_by_pos[i + 1] = "multiple"

\* the base-groups whose count reaches max(min_depth, min_fraction * depth)
ReachesThreshold(i) ==
    {g \in DOMAIN pileup[i] :
        100 * DepthUnit * pileup[i][g] >=
            Max(100 * DepthUnit * min_depth, min_fraction_percent * depths_by_pos[i])}

\* C3: a base-group is valid exactly when its count is at least
\* max(min_depth, min_fraction * depth); the output of a position is the
\* base-group that alone reaches this threshold, and the reference base otherwise.
C3_ValidIffCountReachesThreshold ==
    Polished =>
        \A i \in PolishedPositions :
            new_bases[i + 1] = IF Cardinality(ReachesThreshold(i)) = 1
                               THEN CHOOSE g \in ReachesThreshold(i) : TRUE
                               ELSE RefBase(i)

\* C8: every alignment of a read with N alignments, counted over all reference
\* sequences, adds 1 / N to the depth of each position it puts a base-group on;
\* a position no alignment puts a base-group on keeps depth 0 and an empty
\* pileup.
C8_DepthIsSumOfShares ==
    Polished =>
        \A i \in PolishedPositions :
            /\ depths_by_pos[i] = SumOfShares(Contributors(i))
            /\ Contributors(i) = {} => depths_by_pos[i] = 0 /\ pileup[i] = << >>

\* a position gets a share of a read whose other alignment is on another
\* reference sequence, and another position is not covered
C8_Witness ==
    /\ Polished
    /\ \E i \in PolishedPositions : \E rk \in Contributors(i) :
           /\ Len(alignments[rk[1]]) = 2
           /\ \E k \in 1..2 : alignments[rk[1]][k].ref_name # PolishedName
           /\ depths_by_pos[i] % DepthUnit # 0
    /\ \E i \in PolishedPositions : Contributors(i) = {}

\* C9: get_pileup drops from an alignment's base-groups the longest trailing run
\* of groups equal to the last one and then one more group, and counts the
\* remaining groups at ref_start, ref_start + 1, ... in order.
C9_PileupCountsTrimmedGroups ==
    Polished =>
        \A i \in PolishedPositions :
            /\ DOMAIN pileup[i] = {ContributedGroup(rk, i) : rk \in Contributors(i)}
            /\ \A g \in DOMAIN pileup[i] :
                   pileup[i][g] =
                       Cardinality({rk \in Contributors(i) : ContributedGroup(rk, i) = g})

\* an alignment of the polished target ends in a run of three equal base-groups
\* and still puts a base-group on the pileup
C9_Witness ==
    /\ Polished
    /\ \E i \in PolishedPositions : \E rk \in Contributors(i) :
           TrailingRun(get_read_bases_for_each_target_base(
                           alignments[rk[1]][rk[2]])) = 3

\* C10: a position whose depth is at least min_depth and whose base-groups all
\* equal the reference base is put out as the reference base and is not recorded
\* as changed.
C10_AgreeingPositionIsKept ==
    Polished =>
        \A i \in PolishedPositions :
            (/\ depths_by_pos[i] >= min_depth * DepthUnit
             /\ \A g \in DOMAIN pileup[i] : g = RefBase(i))
            => /\ new_bases[i + 1] = RefBase(i)
               /\ i \notin changed_positions
               /\ status_by_pos[i + 1] = "kept"

C10_Witness ==
    /\ Polished
    /\ \E i \in PolishedPositions :
           /\ depths_by_pos[i] >= min_depth * DepthUnit
           /\ \A g \in DOMAIN pileup[i] : g = RefBase(i)

\* the number of bases of a base-group, its gap markers not counted
BaseCount(group) == Cardinality({k \in 1..Len(group) : group[k] # "-"})

\* the number of bases the first n chosen base-groups put out
RECURSIVE BasesBefore(_)
BasesBefore(n) == IF n = 0 THEN 0 ELSE BasesBefore(n - 1) + BaseCount(new_bases[n])

\* the sequence printed for the target polished last
PolishedOutput == printed[Len(printed)][2]

\* C11: the sequence polish_target_sequence prints is the chosen base-groups of
\* the positions in order with every '-' removed: it holds no '-', a chosen
\* deletion adds no base, a chosen group with inserted bases adds more than
\* one, and its length is the sum of the groups' base counts; the alignments
\* are not modified.
C11_OutputIsGroupsWithoutGaps ==
    Polished =>
        /\ \A k \in 1..Len(PolishedOutput) : PolishedOutput[k] # "-"
        /\ Len(PolishedOutput) = BasesBefore(Len(new_bases))
        /\ \A i \in 1..Len(new_bases) :
               SubSeq(PolishedOutput, BasesBefore(i - 1) + 1, BasesBefore(i))
                   = SelectSeq(new_bases[i], LAMBDA ch : ch # "-")
        /\ alignments = aligner_output
        /\ Len(new_bases) = Len(PolishedSeq)

\* the first target was put out shorter because of a chosen deletion, the
\* second longer because of a chosen insertion
C11_Witness ==
    /\ pc = "done"
    /\ Len(printed[1][2]) < Len(TargetSeqs[1][2])
    /\ \E i \in 1..Len(new_bases) : Len(new_bases[i]) > 1
    /\ Len(PolishedOutput) > Len(PolishedSeq)

----------------------------------------------------------------------------
(* Strings: a Python str is a sequence of one-character strings.             *)

Digits == <<"0", "1", "2", "3", "4", "5", "6", "7", "8", "9">>

IsDigit(ch) == \E k \in 1..Len(Digits) : Digits[k] = ch

\* int(s) of a string of digits
RECURSIVE int(_)
int(s) ==
    IF s = <<>> THEN 0
    ELSE int(Front(s)) * Len(Digits)
         + (CHOOSE k \in 1..Len(Digits) : Digits[k] = Last(s)) - 1

\* str(n) of a natural number
RECURSIVE str(_)
str(n) ==
    IF n < Len(Digits) THEN <<Digits[n + 1]>>
    ELSE str(n \div Len(Digits)) \o <<Digits[(n % Len(Digits)) + 1]>>

\* the operation letters of r'\d+[MIDNSHP=X]'
CigarLetters == {"M", "I", "D", "N", "S", "H", "P", "=", "X"}

\* re.findall(r'\d+[MIDNSHP=X]', cigar): the matches from left to right, each
\* a longest run of digits followed by an operation letter
findall_cigar_parts(cigar) ==
    LET RECURSIVE DigitsEnd(_)
        \* the index of the last digit of the run of digits that holds index k
        DigitsEnd(k) ==
            IF k < Len(cigar) /\ IsDigit(cigar[k + 1]) THEN DigitsEnd(k + 1) ELSE k
        RECURSIVE Scan(_, _)
        Scan(k, found) ==
            IF k > Len(cigar) THEN found
            ELSE IF IsDigit(cigar[k])
                    /\ DigitsEnd(k) < Len(cigar)
                    /\ cigar[DigitsEnd(k) + 1] \in CigarLetters
            THEN Scan(DigitsEnd(k) + 2,
                      Append(found, SubSeq(cigar, k, DigitsEnd(k) + 1)))
            ELSE Scan(k + 1, found)
    IN Scan(1, <<>>)

\* size = int(p[:-1]); letter = p[-1] for every p of the matches
parse_cigar(cigar) ==
    LET cigar_parts == findall_cigar_parts(cigar)
    IN [k \in 1..Len(cigar_parts) |->
            <<int(Front(cigar_parts[k])), Last(cigar_parts[k])>>]

\* the CIGAR string a list of (size, letter) operations is written as
RECURSIVE CigarString(_)
CigarString(ops) ==
    IF ops = <<>> THEN <<>>
    ELSE str(ops[1][1]) \o <<ops[1][2]>> \o CigarString(Tail(ops))

\* the lists of 1 .. n operations with the given letters
RECURSIVE OpLists(_, _)
OpLists(letters, n) ==
    IF n = 0 THEN {}
    ELSE LET one == {<< <<size, letter>> >> : size \in 1..MaxSize, letter \in letters}
         IN one \cup {l \o o : l \in OpLists(letters, n - 1), o \in one}

----------------------------------------------------------------------------
(* alignment.py: the CIGAR functions, each called on its own.                *)

get_expanded_cigar_raises_on_hard_clip(cigar) ==
    \E k \in 1..Len(cigar) : cigar[k][2] = "H"

\* get_expanded_cigar's assertion fails: a letter is not M, D or I
get_expanded_cigar_raises(cigar) ==
    \E k \in 1..Len(cigar) : cigar[k][2] \notin {"M", "D", "I"}

\* the exception get_read_bases_for_each_target_base ends with, "" for none:
\* get_expanded_cigar's assertion, read_bases[-1] on an empty list, read_seq[i]
\* past the end of the read, or 'assert i == len(self.read_seq)'
get_read_bases_error(a) ==
    LET expanded_cigar == get_expanded_cigar(a.cigar)
        consumed == Cardinality({k \in 1..Len(expanded_cigar) :
                                     expanded_cigar[k] \in {"M", "I"}})
    IN IF get_expanded_cigar_raises(a.cigar) THEN "AssertionError"
       ELSE IF expanded_cigar # <<>> /\ expanded_cigar[1] = "I" THEN "IndexError"
       ELSE IF consumed > Len(a.read_seq) THEN "IndexError"
       ELSE IF consumed < Len(a.read_seq) THEN "AssertionError"
       ELSE ""

\* the sum of the sizes of the operations with one of the letters
RECURSIVE OpsLength(_, _)
OpsLength(ops, letters) ==
    IF ops = <<>> THEN 0
    ELSE (IF ops[1][2] \in letters THEN ops[1][1] ELSE 0)
         + OpsLength(Tail(ops), letters)

\* a read of n bases
ReadOfLength(n) ==
    [k \in 1..n |-> <<"A", "C", "G", "T">>[(((k * (k + 1)) \div 2) % 4) + 1]]

\* the calls of get_ref_end: every CIGAR of the bounds, and the two of the tests
GetRefEndCalls ==
    {[fn |-> "get_ref_end", ref_start |-> ref_start, ops |-> ops,
      cigar |-> CigarString(ops)] :
         ref_start \in {0, 3}, ops \in OpLists(CigarLetters, MaxOps)}
    \cup {[fn |-> "get_ref_end", ref_start |-> 100, ops |-> << <<100, "M">> >>,
           cigar |-> CigarString(<< <<100, "M">> >>)],
          [fn |-> "get_ref_end", ref_start |-> 1000,
           ops |-> << <<10, "M">>, <<3, "D">>, <<8, "M">>, <<4, "I">>, <<10, "M">> >>,
           cigar |-> CigarString(<< <<10, "M">>, <<3, "D">>, <<8, "M">>,
                                    <<4, "I">>, <<10, "M">> >>)]}

GetExpandedCigarCalls ==
    {[fn |-> "get_expanded_cigar", ops |-> ops, cigar |-> CigarString(ops)] :
         ops \in OpLists(CigarLetters, MaxOps)}

\* the calls of get_read_bases_for_each_target_base: the read is as long as the
\* CIGAR says
GetReadBasesCalls ==
    {[fn |-> "get_read_bases_for_each_target_base", ops |-> ops,
      cigar |-> CigarString(ops),
      read_seq |-> ReadOfLength(OpsLength(ops, {"M", "I", "S", "=", "X"}))] :
         ops \in OpLists(CigarLetters, MaxOps) \cup OpLists({"M", "I", "D"}, MaxOps + 1)}

\* every variable of the runs of main(): a function under test leaves them alone
main_vars == <<alignments, read_order, read_pair_names, distribution, seed, rng,
               mask_positions, insert_decision_count, random_decision_count,
               before, run, first_run, aligner_output, polish_vars>>

\* the state a function is called in: only the call matters
CallState ==
    /\ pc = "call"
    /\ outcome = NoCall
    /\ read_pair_names = <<>>
    /\ read_order = <<>>
    /\ alignments = << >>
    /\ distribution = NoDistribution
    /\ seed = 0
    /\ rng = 0
    /\ mask_positions = << >>
    /\ insert_decision_count = 0
    /\ random_decision_count = 0
    /\ before = << >>
    /\ run = 1
    /\ first_run = << >>
    /\ aligner_output = << >>
    /\ target_index = 1
    /\ pileup = NoPileup
    /\ depths_by_pos = NoPileup
    /\ new_bases = <<>>
    /\ status_by_pos = <<>>
    /\ changed_positions = {}
    /\ printed = <<>>

Returned(value) == [ok |-> TRUE, value |-> value]

Raised(error) == [ok |-> FALSE, error |-> error]

call_get_ref_end ==
    /\ pc = "call"
    /\ call.fn = "get_ref_end"
    /\ outcome' = Returned(get_ref_end(call.ref_start, parse_cigar(call.cigar)))
    /\ pc' = "returned"
    /\ UNCHANGED <<call, main_vars>>

call_get_expanded_cigar ==
    /\ pc = "call"
    /\ call.fn = "get_expanded_cigar"
    /\ outcome' = IF get_expanded_cigar_raises(parse_cigar(call.cigar))
                  THEN Raised("AssertionError")
                  ELSE Returned(get_expanded_cigar(parse_cigar(call.cigar)))
    /\ pc' = "returned"
    /\ UNCHANGED <<call, main_vars>>

call_get_read_bases_for_each_target_base ==
    /\ pc = "call"
    /\ call.fn = "get_read_bases_for_each_target_base"
    /\ \E a \in {Alignment("t1", 0, parse_cigar(call.cigar), call.read_seq)} :
           outcome' = IF get_read_bases_error(a) # ""
                      THEN Raised(get_read_bases_error(a))
                      ELSE Returned(get_read_bases_for_each_target_base(a))
    /\ pc' = "returned"
    /\ UNCHANGED <<call, main_vars>>

\* a function under test has returned or raised
Called(fn) == pc = "returned" /\ call.fn = fn

\* the operations of a CIGAR, one letter per base
RECURSIVE OpLetters(_)
OpLetters(ops) ==
    IF ops = <<>> THEN <<>>
    ELSE [k \in 1..ops[1][1] |-> ops[1][2]] \o OpLetters(Tail(ops))

\* the places in OpLetters that stand on a reference position, in order
RefPlaces(letters) ==
    LET places == {j \in 1..Len(letters) : letters[j] # "I"}
    IN [p \in 1..Cardinality(places) |->
            CHOOSE j \in places : Cardinality({k \in places : k <= j}) = p]

\* the group of reference position p: its own base or '-', then the bases
\* inserted after it
GroupOf(letters, read_seq, p) ==
    LET places == RefPlaces(letters)
        first == places[p]
        last == IF p = Len(places) THEN Len(letters) ELSE places[p + 1] - 1
    IN [m \in 1..(last - first + 1) |->
            IF letters[first + m - 1] = "D" THEN "-"
            ELSE read_seq[Cardinality({k \in 1..(first + m - 1) :
                                           letters[k] \in {"M", "I"}})]]

\* C12: for a CIGAR of M, I and D operations that starts with M and whose M and
\* I lengths add up to the read length, get_read_bases_for_each_target_base
\* returns one group per reference position (ref_end - ref_start of them): the
\* next read base for an M, '-' for a D, each inserted base appended to the
\* group of the reference position before it; the groups joined without '-'
\* are the read sequence.
C12_OneGroupPerReferencePosition ==
    (/\ Called("get_read_bases_for_each_target_base")
     /\ \A k \in 1..Len(call.ops) : call.ops[k][2] \in {"M", "I", "D"}
     /\ call.ops[1][2] = "M"
     /\ OpsLength(call.ops, {"M", "I"}) = Len(call.read_seq))
    => /\ outcome.ok
       /\ Len(outcome.value) = OpsLength(call.ops, {"M", "D"})
       /\ Len(outcome.value) = get_ref_end(0, call.ops) - 0
       /\ \A p \in 1..Len(outcome.value) :
              outcome.value[p] = GroupOf(OpLetters(call.ops), call.read_seq, p)
       /\ join_without_gaps(outcome.value) = call.read_seq

\* a matched base followed by two inserted bases, then a deletion
C12_Witness ==
    /\ Called("get_read_bases_for_each_target_base")
    /\ outcome.ok
    /\ \E p \in 1..Len(outcome.value) : Len(outcome.value[p]) = 3
    /\ \E p \in 1..Len(outcome.value) : outcome.value[p] = <<"-">>

\* C13: get_ref_end is ref_start plus the lengths of the M, D, N, = and X
\* operations of the CIGAR; I, S, H and P operations add nothing.
C13_RefEndAddsReferenceOperations ==
    Called("get_ref_end") =>
        /\ outcome.ok
        /\ outcome.value =
               call.ref_start + OpsLength(call.ops, {"M", "D", "N", "=", "X"})
        /\ outcome.value =
               call.ref_start + OpsLength(call.ops, CigarLetters)
                   - OpsLength(call.ops, {"I", "S", "H", "P"})

\* get_ref_end(1000, '10M3D8M4I10M') = 1031
C13_Witness ==
    /\ Called("get_ref_end")
    /\ call.ref_start = 1000
    /\ call.cigar = <<"1", "0", "M", "3", "D", "8", "M", "4", "I", "1", "0", "M">>
    /\ outcome = Returned(1031)

\* C14: get_expanded_cigar, and get_read_bases_for_each_target_base through it,
\* fails and returns nothing when the CIGAR holds an S or H operation at any
\* place, and succeeds only when every operation is M, I or D.
C14_ClippingFails ==
    (Called("get_expanded_cigar") \/ Called("get_read_bases_for_each_target_base"))
    => /\ (\E k \in 1..Len(call.ops) : call.ops[k][2] \in {"S", "H"})
              => outcome = Raised("AssertionError")
       /\ outcome.ok => \A k \in 1..Len(call.ops) : call.ops[k][2] \in {"M", "I", "D"}

\* a soft clip after a match
C14_Witness ==
    /\ Called("get_expanded_cigar")
    /\ Len(call.ops) = 2
    /\ call.ops[1][2] = "M"
    /\ call.ops[2][2] = "S"
    /\ ~outcome.ok

----------------------------------------------------------------------------
(* poligner/alignment.py: filter_alignments.                                 *)

starts_with_match(cigar) ==
    LET cigar_parts == findall_cigar_parts(cigar)
    IN Last(cigar_parts[1]) = "M"

ends_with_match(cigar) ==
    LET cigar_parts == findall_cigar_parts(cigar)
    IN Last(cigar_parts[Len(cigar_parts)]) = "M"

\* Alignment.starts_and_ends_with_match
starts_and_ends_with_match(cigar) ==
    LET cigar_parts == findall_cigar_parts(cigar)
        first_part == cigar_parts[1]
        last_part == cigar_parts[Len(cigar_parts)]
    IN Last(first_part) = "M" /\ Last(last_part) = "M"

\* filter_alignments that forgets the reads all of whose alignments it discards
filter_alignments_one_read_without_fallback(st, name, max_errors) ==
    [st EXCEPT !.alignments[name] =
         SelectSeq(@, LAMBDA a : starts_and_ends_with_match(a.cigar)
                                     /\ a.nm_tag <= max_errors)]

\* the loop over the alignments of one read; st is [alignments, unaligned]
filter_alignments_one_read(st, name, max_errors) ==
    LET read_alignments == st.alignments[name]
        RECURSIVE Go(_, _, _, _)
        Go(acc, k, good_alignments, bad_alignments) ==
            IF k > Len(read_alignments) THEN acc
            ELSE LET a == read_alignments[k]
                     is_good == starts_and_ends_with_match(a.cigar)
                                    /\ a.nm_tag <= max_errors
                     good == IF is_good THEN Append(good_alignments, a)
                             ELSE good_alignments
                     bad == IF is_good THEN bad_alignments
                            ELSE Append(bad_alignments, a)
                     kept == [acc EXCEPT !.alignments[name] = good]
                 IN Go(IF good = <<>>
                       THEN [kept EXCEPT !.unaligned = (name :> bad[1]) @@ @]
                       ELSE kept,
                       k + 1, good, bad)
    IN Go(st, 1, <<>>, <<>>)

\* read_names: every first read, then every second read
first_then_second_reads(pair_names) ==
    [k \in 1..Len(pair_names) |-> <<pair_names[k], 1>>]
    \o [k \in 1..Len(pair_names) |-> <<pair_names[k], 2>>]

RECURSIVE filter_alignments_loop(_, _, _)
filter_alignments_loop(st, read_names, max_errors) ==
    IF read_names = <<>> THEN st
    ELSE filter_alignments_loop(
             filter_alignments_one_read(st, Head(read_names), max_errors),
             Tail(read_names), max_errors)

filter_alignments(al, pair_names, max_errors, unaligned) ==
    filter_alignments_loop([alignments |-> al, unaligned |-> unaligned],
                           first_then_second_reads(pair_names), max_errors)

\* every list of at most n members of a set
RECURSIVE ListsOf(_, _)
ListsOf(S, n) ==
    IF n = 0 THEN {<<>>}
    ELSE ListsOf(S, n - 1)
         \cup {Append(l, x) : l \in {m \in ListsOf(S, n - 1) : Len(m) = n - 1}, x \in S}

\* an aligned record as minimap2 reports it: its CIGAR and its NM tag
Reported(ops, nm_tag) == [ops |-> ops, cigar |-> CigarString(ops), nm_tag |-> nm_tag]

ReportedAlignments ==
    { Reported(<< <<3, "M">> >>, 0),
      Reported(<< <<3, "M">> >>, 2),
      Reported(<< <<1, "M">>, <<1, "I">>, <<1, "M">> >>, 1),
      Reported(<< <<1, "S">>, <<2, "M">> >>, 0),
      Reported(<< <<2, "M">>, <<1, "S">> >>, 0) }

\* the record of a read without alignment (SAM flag 4)
UnalignedRecord == Reported(<<>>, -1)

\* the aligner's output for one read pair: the reads without alignment are in
\* the unaligned map
FilterAlignmentsCalls ==
    {[fn |-> "filter_alignments",
      alignments |-> (<<1, 1>> :> l_1) @@ (<<1, 2>> :> l_2),
      read_pair_names |-> <<1>>,
      max_errors |-> max_errors,
      unaligned |-> [r \in {q \in {<<1, 1>>, <<1, 2>>} :
                               IF q[2] = 1 THEN l_1 = <<>> ELSE l_2 = <<>>}
                         |-> UnalignedRecord]] :
         l_1 \in ListsOf(ReportedAlignments, MaxAlign),
         l_2 \in ListsOf(ReportedAlignments, MaxAlign),
         max_errors \in {0, 1}}

call_filter_alignments ==
    /\ pc = "call"
    /\ call.fn = "filter_alignments"
    /\ outcome' = Returned(filter_alignments(call.alignments, call.read_pair_names,
                                             call.max_errors, call.unaligned))
    /\ pc' = "returned"
    /\ UNCHANGED <<call, main_vars>>

\* the first and the last operation are M and the edit distance is small enough
PassesFilter(a, max_errors) ==
    /\ a.ops[1][2] = "M"
    /\ a.ops[Len(a.ops)][2] = "M"
    /\ a.nm_tag <= max_errors

\* C15: filter_alignments keeps, for every read, exactly the alignments whose
\* CIGAR starts and ends with M and whose NM is at most max_errors, in their
\* original order; a read that loses every alignment keeps an empty list and
\* has an entry in the unaligned map.
C15_FilterKeepsEndToEndAlignments ==
    Called("filter_alignments") =>
        /\ DOMAIN outcome.value.alignments = DOMAIN call.alignments
        /\ \A r \in DOMAIN call.alignments :
               /\ outcome.value.alignments[r] =
                      SelectSeq(call.alignments[r],
                                LAMBDA a : PassesFilter(a, call.max_errors))
               /\ outcome.value.alignments[r] = <<>>
                      => r \in DOMAIN outcome.value.unaligned

\* one read keeps its second alignment only, the other loses both
C15_Witness ==
    /\ Called("filter_alignments")
    /\ Len(call.alignments[<<1, 1>>]) = 2
    /\ outcome.value.alignments[<<1, 1>>] = <<call.alignments[<<1, 1>>][2]>>
    /\ Len(call.alignments[<<1, 2>>]) = 2
    /\ outcome.value.alignments[<<1, 2>>] = <<>>
    /\ <<1, 2>> \in DOMAIN outcome.value.unaligned
    /\ <<1, 2>> \notin DOMAIN call.unaligned

----------------------------------------------------------------------------
(* poligner/alignment.py: add_secondary_read_seqs.                           *)

\* a & b of two natural numbers
RECURSIVE BitAnd(_, _)
BitAnd(a, b) ==
    IF a = 0 \/ b = 0 THEN 0
    ELSE (a % 2) * (b % 2) + 2 * BitAnd(a \div 2, b \div 2)

has_flag_when_equal(flags, flag) == flags = flag

\* Alignment.has_flag: bool(self.flags & flag)
has_flag(flags, flag) == BitAnd(flags, flag) # 0

is_aligned(a) == ~has_flag(a.flags, 4)

is_secondary(a) == has_flag(a.flags, 256)

is_on_reverse_strand(a) == has_flag(a.flags, 16)

is_on_forward_strand(a) == ~has_flag(a.flags, 16)

\* misc.reverse_complement: the complement of a base, N for anything else
complement_base(base) ==
    CASE base = "A" -> "T" [] base = "T" -> "A" [] base = "C" -> "G" [] base = "G" -> "C"
      [] base = "a" -> "t" [] base = "t" -> "a" [] base = "c" -> "g" [] base = "g" -> "c"
      [] OTHER -> "N"

reverse_complement(seq) == [k \in 1..Len(seq) |-> complement_base(seq[Len(seq) + 1 - k])]

\* qual[::-1]
reversed(s) == [k \in 1..Len(s) |-> s[Len(s) + 1 - k]]

Star == <<"*">>

forward_seq_and_qual_as_aligned(a) == [seq |-> a.read_seq, qual |-> a.read_qual]

\* seq and qual of the read as sequenced, from its first non-secondary alignment
forward_seq_and_qual(a) ==
    IF is_on_forward_strand(a)
    THEN [seq |-> a.read_seq, qual |-> a.read_qual]
    ELSE [seq |-> reverse_complement(a.read_seq), qual |-> reversed(a.read_qual)]

\* the body of the loop over the reads: [ok, alignments]
add_secondary_read_seqs_one_read(read_alignments) ==
    LET RECURSIVE Find(_)
        \* the first loop: [ok, found, seq, qual]
        Find(k) ==
            IF k > Len(read_alignments) THEN [ok |-> TRUE, found |-> FALSE]
            ELSE LET a == read_alignments[k]
                 IN IF is_secondary(a)
                    THEN (IF a.read_seq = Star /\ a.read_qual = Star
                          THEN Find(k + 1) ELSE [ok |-> FALSE, found |-> FALSE])
                    ELSE (IF a.read_seq # Star /\ a.read_qual # Star
                          THEN [ok |-> TRUE, found |-> TRUE,
                                seq |-> forward_seq_and_qual(a).seq,
                                qual |-> forward_seq_and_qual(a).qual]
                          ELSE [ok |-> FALSE, found |-> FALSE])
        filled(f) ==
            [k \in 1..Len(read_alignments) |->
                LET a == read_alignments[k]
                IN IF ~is_secondary(a) THEN a
                   ELSE IF is_on_forward_strand(a)
                   THEN [a EXCEPT !.read_seq = f.seq, !.read_qual = f.qual]
                   ELSE [a EXCEPT !.read_seq = reverse_complement(f.seq),
                                  !.read_qual = reversed(f.qual)]]
        finish(f) ==
            IF ~f.ok \/ ~f.found THEN [ok |-> FALSE, alignments |-> read_alignments]
            ELSE IF \E k \in 1..Len(read_alignments) :
                        filled(f)[k].read_seq = Star \/ filled(f)[k].read_qual = Star
            THEN [ok |-> FALSE, alignments |-> filled(f)]
            ELSE [ok |-> TRUE, alignments |-> filled(f)]
    IN IF Len(read_alignments) = 0 THEN [ok |-> TRUE, alignments |-> read_alignments]
       ELSE finish(Find(1))

\* add_secondary_read_seqs: [ok, alignments]
add_secondary_read_seqs(al, pair_names) ==
    LET RECURSIVE Go(_, _)
        Go(st, read_names) ==
            IF read_names = <<>> \/ ~st.ok THEN st
            ELSE LET one == add_secondary_read_seqs_one_read(st.alignments[Head(read_names)])
                 IN Go([ok |-> one.ok,
                        alignments |-> [st.alignments EXCEPT
                                            ![Head(read_names)] = one.alignments]],
                       Tail(read_names))
    IN Go([ok |-> TRUE, alignments |-> al], first_then_second_reads(pair_names))

\* the records of one read in the aligner's output: a primary alignment with
\* the read's sequence and quality, secondary alignments with '*'
SamRecords ==
    { [flags |-> 0, read_seq |-> <<"A", "C", "N">>, read_qual |-> <<"I", "5", "#">>],
      [flags |-> 16, read_seq |-> <<"A", "C", "N">>, read_qual |-> <<"I", "5", "#">>],
      [flags |-> 256, read_seq |-> Star, read_qual |-> Star],
      [flags |-> 272, read_seq |-> Star, read_qual |-> Star] }

AddSecondaryReadSeqsCalls ==
    {[fn |-> "add_secondary_read_seqs",
      alignments |-> (<<1, 1>> :> l_1) @@ (<<1, 2>> :> l_2),
      read_pair_names |-> <<1>>] :
         l_1 \in ListsOf(SamRecords, MaxAlign), l_2 \in ListsOf(SamRecords, MaxAlign)}

call_add_secondary_read_seqs ==
    /\ pc = "call"
    /\ call.fn = "add_secondary_read_seqs"
    /\ \E st \in {add_secondary_read_seqs(call.alignments, call.read_pair_names)} :
           outcome' = IF st.ok THEN Returned(st.alignments)
                      ELSE Raised("AssertionError")
    /\ pc' = "returned"
    /\ UNCHANGED <<call, main_vars>>

\* the primary alignment of a read: its first alignment that is not secondary
HasPrimary(l) == \E k \in 1..Len(l) : ~is_secondary(l[k])

PrimaryOf(l) ==
    l[CHOOSE k \in 1..Len(l) :
          ~is_secondary(l[k]) /\ \A j \in 1..(k - 1) : is_secondary(l[j])]

\* C16: after add_secondary_read_seqs no alignment of a read holds '*'; every
\* secondary alignment on the strand of the read's primary alignment holds the
\* primary's sequence and quality, every secondary alignment on the other strand
\* the reverse complement of the sequence and the reversed quality; alignments
\* that are not secondary are unchanged.
C16_SecondariesGetPrimarySequence ==
    Called("add_secondary_read_seqs") =>
        /\ (\A r \in DOMAIN call.alignments :
                call.alignments[r] # <<>> => HasPrimary(call.alignments[r]))
               => outcome.ok
        /\ outcome.ok =>
               \A r \in DOMAIN call.alignments :
                   /\ Len(outcome.value[r]) = Len(call.alignments[r])
                   /\ \A k \in 1..Len(call.alignments[r]) :
                          LET old == call.alignments[r][k]
                              new == outcome.value[r][k]
                              primary == PrimaryOf(call.alignments[r])
                              n == Len(primary.read_seq)
                          IN /\ new.read_seq # Star /\ new.read_qual # Star
                             /\ new.flags = old.flags
                             /\ ~is_secondary(old) => new = old
                             /\ (/\ is_secondary(old)
                                 /\ is_on_reverse_strand(old) = is_on_reverse_strand(primary))
                                    => /\ new.read_seq = primary.read_seq
                                       /\ new.read_qual = primary.read_qual
                             /\ (/\ is_secondary(old)
                                 /\ is_on_reverse_strand(old) # is_on_reverse_strand(primary))
                                    => /\ new.read_seq =
                                              [j \in 1..n |->
                                                  complement_base(primary.read_seq[n + 1 - j])]
                                       /\ new.read_qual =
                                              [j \in 1..n |-> primary.read_qual[n + 1 - j]]

\* a reverse-strand primary with a secondary on the same strand, and a
\* forward-strand primary with a secondary on the other strand
C16_Witness ==
    /\ Called("add_secondary_read_seqs")
    /\ outcome.ok
    /\ Len(call.alignments[<<1, 1>>]) = 2
    /\ Len(call.alignments[<<1, 2>>]) = 2
    /\ call.alignments[<<1, 1>>][1].flags = 16
    /\ call.alignments[<<1, 1>>][2].flags = 272
    /\ call.alignments[<<1, 2>>][1].flags = 0
    /\ call.alignments[<<1, 2>>][2].flags = 272
    /\ outcome.value[<<1, 2>>][2].read_seq = <<"N", "G", "T">>

----------------------------------------------------------------------------
(* insert_size.py: score_insert_size and the three get_insert_size.          *)

ScoreInsertSizeCalls ==
    {[fn |-> "score_insert_size", insert_size |-> insert_size, distribution |-> dist] :
         insert_size \in 0..MaxInsert, dist \in Distributions}

call_score_insert_size ==
    /\ pc = "call"
    /\ call.fn = "score_insert_size"
    /\ outcome' = Returned(score_insert_size(call.insert_size, call.distribution))
    /\ pc' = "returned"
    /\ UNCHANGED <<call, main_vars>>

\* the bands of score_insert_size: lower percentile, upper percentile, score
Bands == << <<"10", "90", 5>>, <<"1", "99", 4>>, <<"0.1", "99.9", 3>>,
            <<"0.01", "99.99", 2>>, <<"0.001", "99.999", 1>> >>

\* the scores of the bands that hold an insert size, and 0
ScoresOfBandsWith(insert_size, dist) ==
    {0} \cup {Bands[k][3] : k \in {j \in 1..Len(Bands) :
                 dist[Bands[j][1]] <= insert_size /\ insert_size <= dist[Bands[j][2]]}}

\* a distribution whose values do not decrease with the percentile
Monotone(dist) ==
    \A j, k \in 1..Len(Percentiles) : j <= k => dist[Percentiles[j]] <= dist[Percentiles[k]]

\* C17: score_insert_size is the score of the highest band that holds the insert
\* size (5 for [P10, P90], 4 for [P1, P99], 3 for [P0.1, P99.9], 2 for
\* [P0.01, P99.99], 1 for [P0.001, P99.999]) and 0 outside every band; under a
\* monotone distribution an insert size farther from [P10, P90] on the same
\* side never scores higher.
C17_ScoreIsHighestBand ==
    Called("score_insert_size") =>
        /\ outcome.value \in 0..5
        /\ outcome.value \in ScoresOfBandsWith(call.insert_size, call.distribution)
        /\ \A x \in ScoresOfBandsWith(call.insert_size, call.distribution) :
               x <= outcome.value
        /\ Monotone(call.distribution) =>
               \A farther \in 0..MaxInsert :
                   (\/ call.distribution["10"] <= call.insert_size
                          /\ call.insert_size <= farther
                    \/ farther <= call.insert_size
                          /\ call.insert_size <= call.distribution["90"])
                   => score_insert_size(farther, call.distribution) <= outcome.value

\* an insert size above P99 and within P99.9
C17_Witness ==
    /\ Called("score_insert_size")
    /\ Monotone(call.distribution)
    /\ call.insert_size > call.distribution["99"]
    /\ outcome.value = 3

get_insert_size_mate_1_first(alignment_1, alignment_2) ==
    alignment_2.ref_end - alignment_1.ref_start

\* polypolish/insert_size.py: the chain of comparisons
get_insert_size_polypolish(alignment_1, alignment_2) ==
    LET ref_start_2 == alignment_2.ref_start
        ref_end_1 == alignment_1.ref_end
        ref_end_2 == alignment_2.ref_end
        min_0 == alignment_1.ref_start
        min_1 == IF ref_start_2 < min_0 THEN ref_start_2 ELSE min_0
        min_2 == IF ref_end_1 < min_1 THEN ref_end_1 ELSE min_1
        min_pos == IF ref_end_2 < min_2 THEN ref_end_2 ELSE min_2
        max_0 == alignment_1.ref_start
        max_1 == IF ref_start_2 > max_0 THEN ref_start_2 ELSE max_0
        max_2 == IF ref_end_1 > max_1 THEN ref_end_1 ELSE max_1
        max_pos == IF ref_end_2 > max_2 THEN ref_end_2 ELSE max_2
    IN max_pos - min_pos

\* scripts/polypolish_insert_filter.py: min() and max()
get_insert_size_script(alignment_1, alignment_2) ==
    LET insert_start == Min(Min(alignment_1.ref_start, alignment_1.ref_end),
                            Min(alignment_2.ref_start, alignment_2.ref_end))
        insert_end == Max(Max(alignment_1.ref_start, alignment_1.ref_end),
                          Max(alignment_2.ref_start, alignment_2.ref_end))
    IN insert_end - insert_start

\* the placements of a read: ref_end is never before ref_start
Placements ==
    {a \in [ref_start : 0..(MaxSize + 1), ref_end : 0..(MaxSize + 1)] :
         a.ref_start <= a.ref_end}

GetInsertSizeCalls ==
    {[fn |-> "get_insert_size", alignment_1 |-> a_1, alignment_2 |-> a_2] :
         a_1 \in Placements, a_2 \in Placements}

call_get_insert_size ==
    /\ pc = "call"
    /\ call.fn = "get_insert_size"
    /\ outcome' = Returned(
           [polypolish |-> get_insert_size_polypolish(call.alignment_1, call.alignment_2),
            maskimap |-> get_insert_size(call.alignment_1, call.alignment_2),
            script |-> get_insert_size_script(call.alignment_1, call.alignment_2)])
    /\ pc' = "returned"
    /\ UNCHANGED <<call, main_vars>>

\* the four coordinates of a pair of alignments
Coordinates(alignment_1, alignment_2) ==
    {alignment_1.ref_start, alignment_1.ref_end, alignment_2.ref_start, alignment_2.ref_end}

\* the distance between the highest and the lowest of a set of coordinates
Span(coordinates) ==
    CHOOSE d \in {hi - lo : hi \in coordinates, lo \in coordinates} :
        \E lo \in coordinates, hi \in coordinates :
            /\ d = hi - lo
            /\ \A x \in coordinates : lo <= x /\ x <= hi

\* C18: the three get_insert_size implementations (the comparison chain, the
\* sorted list and min()/max()) all return the highest minus the lowest of the
\* two alignments' start and end coordinates, and the result does not depend
\* on the order of the two alignments.
C18_InsertSizeIsSpanOfCoordinates ==
    Called("get_insert_size") =>
        /\ outcome.value.polypolish = Span(Coordinates(call.alignment_1, call.alignment_2))
        /\ outcome.value.maskimap = outcome.value.polypolish
        /\ outcome.value.script = outcome.value.polypolish
        /\ get_insert_size_polypolish(call.alignment_2, call.alignment_1)
               = outcome.value.polypolish
        /\ get_insert_size(call.alignment_2, call.alignment_1) = outcome.value.maskimap
        /\ get_insert_size_script(call.alignment_2, call.alignment_1) = outcome.value.script

\* mate 2 lies upstream of mate 1 and the two do not touch
C18_Witness ==
    /\ Called("get_insert_size")
    /\ call.alignment_2.ref_end < call.alignment_1.ref_start
    /\ call.alignment_2.ref_start < call.alignment_2.ref_end
    /\ outcome.value.polypolish = call.alignment_1.ref_end - call.alignment_2.ref_start
    /\ outcome.value.polypolish >= 3

----------------------------------------------------------------------------
(* insert_size.py: get_distribution and get_insert_size_distribution.        *)

\* the percentiles of get_distribution in thousandths of a percent, in the
\* order of Percentiles
PercentileThousandths ==
    <<1, 10, 100, 1000, 10000, 50000, 90000, 99000, 99900, 99990, 99999>>

\* math.ceil(numerator / denominator) of non-negative integers
ceil(numerator, denominator) == (numerator + denominator - 1) \div denominator

get_percentile_from_the_top(sorted_list, percentile) ==
    IF sorted_list = <<>> THEN 0
    ELSE LET rank == ceil(percentile * Len(sorted_list), 100 * 1000)
         IN IF rank = 0 THEN sorted_list[1] ELSE sorted_list[Len(sorted_list) + 1 - rank]

\* the nearest-rank percentile of a sorted list; percentile in thousandths of
\* a percent
get_percentile(sorted_list, percentile) ==
    IF sorted_list = <<>> THEN 0
    ELSE LET rank == ceil(percentile * Len(sorted_list), 100 * 1000)
         IN IF rank = 0 THEN sorted_list[1] ELSE sorted_list[rank]

\* sorted() of a list of numbers
RECURSIVE sorted_numbers(_)
sorted_numbers(list) ==
    IF list = <<>> THEN <<>>
    ELSE LET rest == sorted_numbers(Tail(list))
             not_above == Cardinality({k \in 1..Len(rest) : rest[k] <= Head(list)})
         IN SubSeq(rest, 1, not_above) \o <<Head(list)>>
            \o SubSeq(rest, not_above + 1, Len(rest))

get_distribution(insert_sizes) ==
    LET sorted_sizes == sorted_numbers(insert_sizes)
    IN MakeDistribution([k \in 1..Len(PercentileThousandths) |->
                            get_percentile(sorted_sizes, PercentileThousandths[k])])

\* samples of insert sizes in any order; the values are those get_insert_size
\* gives on Placements
GetDistributionCalls ==
    {[fn |-> "get_distribution", insert_sizes |-> insert_sizes] :
         insert_sizes \in ListsOf(0..(MaxSize + 1), MaxSample)}

call_get_distribution ==
    /\ pc = "call"
    /\ call.fn = "get_distribution"
    /\ outcome' = Returned(get_distribution(call.insert_sizes))
    /\ pc' = "returned"
    /\ UNCHANGED <<call, main_vars>>

\* the 1-based nearest rank of a percentile in a sample of n values: the
\* lowest rank holding at least that share of the sample
NearestRank(thousandths, n) ==
    CHOOSE rank \in 0..n :
        /\ rank * 100 * 1000 >= thousandths * n
        /\ \A lower \in 0..n : lower * 100 * 1000 >= thousandths * n => rank <= lower

\* value stands at a rank of the sample in increasing order
AtRank(sample, rank, value) ==
    /\ Cardinality({k \in 1..Len(sample) : sample[k] < value}) < rank
    /\ rank <= Cardinality({k \in 1..Len(sample) : sample[k] <= value})

\* C19: for a non-empty sample, get_distribution maps each of the 11
\* percentiles to the sample's value at the nearest rank ceil(p / 100 * n) in
\* increasing order, a member of the sample, and a lower percentile never has
\* a higher value.
C19_DistributionIsNearestRank ==
    Called("get_distribution") /\ call.insert_sizes # <<>> =>
        /\ DOMAIN outcome.value = Range(Percentiles)
        /\ \A k \in 1..Len(Percentiles) :
               /\ outcome.value[Percentiles[k]] \in Range(call.insert_sizes)
               /\ AtRank(call.insert_sizes,
                         NearestRank(PercentileThousandths[k], Len(call.insert_sizes)),
                         outcome.value[Percentiles[k]])
        /\ Monotone(outcome.value)

\* an unsorted sample whose median is neither its lowest nor its highest value
C19_Witness ==
    /\ Called("get_distribution")
    /\ Len(call.insert_sizes) >= 3
    /\ call.insert_sizes[1] > call.insert_sizes[2]
    /\ outcome.value["10"] < outcome.value["50"]
    /\ outcome.value["50"] < outcome.value["99"]
    /\ outcome.value["90"] = outcome.value["99.999"]

\* settings.MAX_ALLOWED_INSERT_SIZE
MAX_ALLOWED_INSERT_SIZE == 5000

has_no_indels(a) ==
    /\ a.cigar # <<>>
    /\ Last(a.cigar) = "M"
    /\ Front(a.cigar) # <<>>
    /\ \A k \in 1..(Len(a.cigar) - 1) : IsDigit(a.cigar[k])

RECURSIVE get_uniquely_aligned_pairs(_, _)
get_uniquely_aligned_pairs(al, pair_names) ==
    IF pair_names = <<>> THEN <<>>
    ELSE LET alignments_1 == al[<<Head(pair_names), 1>>]
             alignments_2 == al[<<Head(pair_names), 2>>]
         IN (IF Len(alignments_1) = 1 /\ Len(alignments_2) = 1
             THEN << <<alignments_1[1], alignments_2[1]>> >>
             ELSE <<>>)
            \o get_uniquely_aligned_pairs(al, Tail(pair_names))

RECURSIVE get_properly_aligned_pairs(_)
get_properly_aligned_pairs(unique_pairs) ==
    IF unique_pairs = <<>> THEN <<>>
    ELSE LET alignment_1 == Head(unique_pairs)[1]
             alignment_2 == Head(unique_pairs)[2]
         IN (IF /\ has_no_indels(alignment_1) /\ has_no_indels(alignment_2)
                /\ \/ is_on_forward_strand(alignment_1) /\ is_on_reverse_strand(alignment_2)
                   \/ is_on_reverse_strand(alignment_1) /\ is_on_forward_strand(alignment_2)
             THEN <<Head(unique_pairs)>>
             ELSE <<>>)
            \o get_properly_aligned_pairs(Tail(unique_pairs))

RECURSIVE allowed_insert_sizes(_)
allowed_insert_sizes(proper_pairs) ==
    IF proper_pairs = <<>> THEN <<>>
    ELSE LET insert_size == get_insert_size_polypolish(Head(proper_pairs)[1],
                                                       Head(proper_pairs)[2])
         IN (IF insert_size <= MAX_ALLOWED_INSERT_SIZE THEN <<insert_size>> ELSE <<>>)
            \o allowed_insert_sizes(Tail(proper_pairs))

get_insert_size_distribution(al, pair_names) ==
    LET unique_pairs == get_uniquely_aligned_pairs(al, pair_names)
        proper_pairs == get_properly_aligned_pairs(unique_pairs)
        insert_sizes == allowed_insert_sizes(proper_pairs)
    IN get_distribution(insert_sizes)

\* an alignment of a read: its CIGAR, flags and place on the target
Placed(ops, flags, ref_start) ==
    [cigar |-> CigarString(ops), flags |-> flags, ref_start |-> ref_start,
     ref_end |-> get_ref_end(ref_start, parse_cigar(CigarString(ops)))]

\* alignments with and without an indel, on either strand, near the start of
\* the target and farther than the ceiling from it
PlacedAlignments ==
    {Placed(ops, flags, ref_start) :
         ops \in { << <<2, "M">> >>, << <<1, "M">>, <<1, "I">>, <<1, "M">> >> },
         flags \in {0, 16},
         ref_start \in {0, MAX_ALLOWED_INSERT_SIZE + 1}}

\* the alignments of the reads of two pairs
GetInsertSizeDistributionCalls ==
    {[fn |-> "get_insert_size_distribution",
      alignments |-> (<<1, 1>> :> l_1) @@ (<<1, 2>> :> l_2)
                     @@ (<<2, 1>> :> l_3) @@ (<<2, 2>> :> << Placed(<< <<2, "M">> >>, 16, 1) >>),
      read_pair_names |-> <<1, 2>>] :
         l_1 \in ListsOf(PlacedAlignments, 2),
         l_2 \in ListsOf(PlacedAlignments, 1),
         l_3 \in ListsOf({Placed(<< <<2, "M">> >>, flags, 0) : flags \in {0, 16}}, 1)}

call_get_insert_size_distribution ==
    /\ pc = "call"
    /\ call.fn = "get_insert_size_distribution"
    /\ outcome' = Returned(get_insert_size_distribution(call.alignments, call.read_pair_names))
    /\ pc' = "returned"
    /\ UNCHANGED <<call, main_vars>>

\* the pairs that qualify for the estimation: one alignment per mate, both
\* one run of matches, on opposite strands, with an insert size within the
\* ceiling
QualifyingPairs(al, pair_names) ==
    {n \in Range(pair_names) :
        /\ Len(al[<<n, 1>>]) = 1
        /\ Len(al[<<n, 2>>]) = 1
        /\ \A mate \in {1, 2} :
               LET ops == parse_cigar(al[<<n, mate>>][1].cigar)
               IN Len(ops) = 1 /\ ops[1][2] = "M"
        /\ has_flag(al[<<n, 1>>][1].flags, 16) # has_flag(al[<<n, 2>>][1].flags, 16)
        /\ Span(Coordinates(al[<<n, 1>>][1], al[<<n, 2>>][1])) <= MAX_ALLOWED_INSERT_SIZE}

\* C20: when no read pair qualifies for the estimation,
\* get_insert_size_distribution ends with a fatal error and returns no
\* distribution.
C20_NoQualifyingPairIsFatal ==
    Called("get_insert_size_distribution")
        /\ QualifyingPairs(call.alignments, call.read_pair_names) = {}
    => ~outcome.ok

----------------------------------------------------------------------------
(* alignment.py: the flag tests of an Alignment.                             *)

\* the single-bit flags of a SAM record
FlagBits == {1, 2, 4, 8, 16, 32, 64, 128, 256, 512, 1024, 2048}

\* an Alignment built from a SAM line with a flags field, asked for every flag
HasFlagCalls ==
    {[fn |-> "has_flag", flags_field |-> str(flags)] : flags \in 0..MaxFlags}

call_has_flag ==
    /\ pc = "call"
    /\ call.fn = "has_flag"
    /\ \E a \in {[flags |-> int(call.flags_field)]} :
           outcome' = Returned([has_flag |-> [flag \in FlagBits |-> has_flag(a.flags, flag)],
                                is_aligned |-> is_aligned(a),
                                is_secondary |-> is_secondary(a),
                                is_on_forward_strand |-> is_on_forward_strand(a),
                                is_on_reverse_strand |-> is_on_reverse_strand(a)])
    /\ pc' = "returned"
    /\ UNCHANGED <<call, main_vars>>

\* the number a flags field is written for
FlagsWritten(field) == CHOOSE flags \in 0..(MaxFlags + 1) : str(flags) = field

\* bit b of a number
BitSet(n, b) == (n \div b) % 2 = 1

\* the number with bit b the other way
Toggled(n, b) == IF BitSet(n, b) THEN n - b ELSE n + b

\* C21: has_flag(b) of a single-bit flag b is true exactly when bit b is set
\* in the flags, whatever the other bits are (345 has bits 1, 8, 16, 64, 256
\* and 1044 has bits 4, 16, 1024, and no others); is_aligned, is_secondary and
\* is_on_forward_strand test bits 4 (negated), 256 and 16 (negated) of the
\* same flags.
C21_HasFlagTestsOneBit ==
    Called("has_flag") =>
        LET flags == FlagsWritten(call.flags_field)
        IN /\ \A b \in FlagBits :
                  /\ outcome.value.has_flag[b] = BitSet(flags, b)
                  /\ \A other \in FlagBits \ {b} :
                         has_flag(Toggled(flags, other), b) = outcome.value.has_flag[b]
           /\ flags = 345 =>
                  {b \in FlagBits : outcome.value.has_flag[b]} = {1, 8, 16, 64, 256}
           /\ flags = 1044 =>
                  {b \in FlagBits : outcome.value.has_flag[b]} = {4, 16, 1024}
           /\ outcome.value.is_aligned = ~BitSet(flags, 4)
           /\ outcome.value.is_secondary = BitSet(flags, 256)
           /\ outcome.value.is_on_forward_strand = ~BitSet(flags, 16)
           /\ outcome.value.is_on_reverse_strand = BitSet(flags, 16)

\* the flags of test_flags_1
C21_Witness ==
    /\ Called("has_flag")
    /\ call.flags_field = <<"3", "4", "5">>
    /\ outcome.value.has_flag[256]
    /\ ~outcome.value.has_flag[4]
    /\ outcome.value.is_aligned
    /\ ~outcome.value.is_on_forward_strand

----------------------------------------------------------------------------
(* scripts/polypolish_insert_filter.py: get_orientation.                     *)

\* 'f' or 'r'
strand_of(a) == IF is_on_forward_strand(a) THEN "f" ELSE "r"

get_orientation_read_1_first(alignment_1, alignment_2) ==
    <<strand_of(alignment_1), strand_of(alignment_2)>>

get_orientation(alignment_1, alignment_2) ==
    LET strand_1 == strand_of(alignment_1)
        strand_2 == strand_of(alignment_2)
    IN IF strand_1 # strand_2
       THEN IF alignment_1.ref_start < alignment_2.ref_start
            THEN <<strand_1>> \o <<strand_2>>
            ELSE <<strand_2>> \o <<strand_1>>
       ELSE IF strand_1 = "f"
       THEN IF alignment_1.ref_start < alignment_2.ref_start
            THEN <<"f", "f">>
            ELSE <<"r", "r">>
       ELSE IF alignment_2.ref_start < alignment_1.ref_start
            THEN <<"f", "f">>
            ELSE <<"r", "r">>

\* alignments of two matched bases on either strand
StrandedAlignments ==
    {Placed(<< <<2, "M">> >>, flags, ref_start) :
         flags \in {0, 16}, ref_start \in 0..(MaxSize + 1)}

GetOrientationCalls ==
    {[fn |-> "get_orientation", alignment_1 |-> a_1, alignment_2 |-> a_2] :
         a_1 \in StrandedAlignments, a_2 \in StrandedAlignments}

call_get_orientation ==
    /\ pc = "call"
    /\ call.fn = "get_orientation"
    /\ outcome' = Returned(get_orientation(call.alignment_1, call.alignment_2))
    /\ pc' = "returned"
    /\ UNCHANGED <<call, main_vars>>

\* the alignment is on the forward strand: bit 16 of its flags is clear
Forward(a) == ~BitSet(a.flags, 16)

\* the one of two alignments that starts first
StartsFirst(a, b) == IF a.ref_start < b.ref_start THEN a ELSE b

\* C23: for two alignments with different starts, get_orientation is 'fr'
\* when the strands differ and the forward one starts first, 'rf' when the
\* strands differ and the reverse one starts first (whichever is read 1), 'ff'
\* when both are forward and read 1 starts first or both are reverse and read
\* 2 starts first, and 'rr' in the other same-strand cases.
C23_OrientationOfAPair ==
    Called("get_orientation") /\ call.alignment_1.ref_start # call.alignment_2.ref_start =>
        LET a_1 == call.alignment_1
            a_2 == call.alignment_2
        IN /\ (outcome.value = <<"f", "r">>)
                  = (Forward(a_1) # Forward(a_2) /\ Forward(StartsFirst(a_1, a_2)))
           /\ (outcome.value = <<"r", "f">>)
                  = (Forward(a_1) # Forward(a_2) /\ ~Forward(StartsFirst(a_1, a_2)))
           /\ (outcome.value = <<"f", "f">>)
                  = \/ Forward(a_1) /\ Forward(a_2) /\ StartsFirst(a_1, a_2) = a_1
                    \/ ~Forward(a_1) /\ ~Forward(a_2) /\ StartsFirst(a_1, a_2) = a_2
           /\ (outcome.value = <<"r", "r">>)
                  = \/ Forward(a_1) /\ Forward(a_2) /\ StartsFirst(a_1, a_2) = a_2
                    \/ ~Forward(a_1) /\ ~Forward(a_2) /\ StartsFirst(a_1, a_2) = a_1
           /\ Forward(a_1) # Forward(a_2) => get_orientation(a_2, a_1) = outcome.value

\* read 1 on the reverse strand downstream of read 2 on the forward strand, as
\* in test_get_orientation_2
C23_Witness ==
    /\ Called("get_orientation")
    /\ call.alignment_1.flags = 16
    /\ call.alignment_2.flags = 0
    /\ call.alignment_2.ref_start < call.alignment_1.ref_start
    /\ outcome.value = <<"f", "r">>

----------------------------------------------------------------------------
(* scripts/polypolish_insert_filter.py: filter_sams.                         *)

\* a line of a SAM file: a header line, or a record with its flags, 1-based
\* position, CIGAR and tags
HeaderLine == [header |-> TRUE, flags |-> <<>>, pos |-> <<>>, cigar |-> <<>>, tags |-> <<>>]

SamLine(flags, pos, cigar) ==
    [header |-> FALSE, flags |-> str(flags), pos |-> str(pos), cigar |-> cigar, tags |-> <<>>]

\* the script's Alignment(sam_line)
ScriptAlignment(line) ==
    [flags |-> int(line.flags),
     ref_start |-> int(line.pos) - 1,
     ref_end |-> get_ref_end(int(line.pos) - 1, parse_cigar(line.cigar))]

RECURSIVE load_alignments_one_file(_)
load_alignments_one_file(lines) ==
    IF lines = <<>> THEN <<>>
    ELSE (IF Head(lines).header THEN <<>>
          ELSE IF is_aligned(ScriptAlignment(Head(lines)))
          THEN <<ScriptAlignment(Head(lines))>>
          ELSE <<>>)
         \o load_alignments_one_file(Tail(lines))

\* the alignments of the reads '_1' and '_2' of the pair
load_alignments(sam_1, sam_2) ==
    <<load_alignments_one_file(sam_1), load_alignments_one_file(sam_2)>>

alignment_pass_qc(a, this_alignments, pair_alignments, low, high, correct_orientation) ==
    IF Len(pair_alignments) = 0 THEN TRUE
    ELSE IF Len(this_alignments) = 1 THEN TRUE
    ELSE \E k \in 1..Len(pair_alignments) :
             LET insert_size == get_insert_size_script(a, pair_alignments[k])
                 orientation == get_orientation(a, pair_alignments[k])
             IN low <= insert_size /\ insert_size <= high
                    /\ orientation = correct_orientation

\* the line filter_sam writes for a line of its input
filter_sam_line(line, al, low, high, correct_orientation, read_num) ==
    IF line.header THEN line
    ELSE IF ~is_aligned(ScriptAlignment(line)) THEN line
    ELSE LET this_alignments == al[read_num]
             pair_alignments == al[3 - read_num]
         IN IF alignment_pass_qc(ScriptAlignment(line), this_alignments, pair_alignments,
                                 low, high, correct_orientation)
            THEN line
            ELSE [line EXCEPT !.tags = Append(@, "ZP:Z:fail")]

filter_sam(lines, al, low, high, correct_orientation, read_num) ==
    [k \in 1..Len(lines) |->
        filter_sam_line(lines[k], al, low, high, correct_orientation, read_num)]

\* the lines filter_sam counts as passing
pass_count(lines, out_lines) ==
    Cardinality({k \in 1..Len(lines) :
                    /\ ~lines[k].header
                    /\ is_aligned(ScriptAlignment(lines[k]))
                    /\ out_lines[k] = lines[k]})

filter_sams(in1, in2, al, low, high, correct_orientation) ==
    LET out1 == filter_sam(in1, al, low, high, correct_orientation, 1)
        out2 == filter_sam(in2, al, low, high, correct_orientation, 2)
    IN [out1 |-> out1, out2 |-> out2,
        after_count |-> pass_count(in1, out1) + pass_count(in2, out2)]

\* the records of one read: unaligned, or aligned over two bases on either
\* strand at two places
RecordLines ==
    <<SamLine(4, 0, <<"*">>),
      SamLine(0, MaxSize + 2, CigarString(<< <<2, "M">> >>)),
      SamLine(16, MaxSize + 2, CigarString(<< <<2, "M">> >>)),
      SamLine(0, 1, CigarString(<< <<2, "M">> >>)),
      SamLine(16, 1, CigarString(<< <<2, "M">> >>))>>

\* the two SAM files of one read pair (the first with or without a header
\* line before its records), the thresholds and the orientation
FilterSamsCalls ==
    {[fn |-> "filter_sams", in1 |-> in1, in2 |-> in2,
      low |-> thresholds[1], high |-> thresholds[2],
      correct_orientation |-> correct_orientation] :
         in1 \in SubLists(<<HeaderLine>> \o RecordLines, MaxAlign),
         in2 \in SubLists(RecordLines, MaxAlign),
         thresholds \in {<<MaxSize + 1, MaxSize + 4>>, <<0, MaxSize>>},
         correct_orientation \in {<<"f", "r">>, <<"f", "f">>}}

call_filter_sams ==
    /\ pc = "call"
    /\ call.fn = "filter_sams"
    /\ \E al \in {load_alignments(call.in1, call.in2)} :
           outcome' = Returned(filter_sams(call.in1, call.in2, al, call.low, call.high,
                                           call.correct_orientation))
    /\ pc' = "returned"
    /\ UNCHANGED <<call, main_vars>>

\* the aligned records of a file
AlignedRecords(lines) ==
    {k \in 1..Len(lines) : ~lines[k].header /\ ~BitSet(FlagsWritten(lines[k].flags), 4)}

\* the orientation of the pair made of an alignment of read read_num and an
\* alignment of its mate
PairOrientation(a, mate, read_num) ==
    IF read_num = 1 THEN get_orientation(a, mate) ELSE get_orientation(mate, a)

\* an alignment of read read_num makes a good pair with an alignment of the mate
InAGoodPair(line, mate_lines, read_num) ==
    \E k \in AlignedRecords(mate_lines) :
        LET a == ScriptAlignment(line)
            mate == ScriptAlignment(mate_lines[k])
        IN /\ call.low <= Span(Coordinates(a, mate))
           /\ Span(Coordinates(a, mate)) <= call.high
           /\ PairOrientation(a, mate, read_num) = call.correct_orientation

\* the rule of the filter for the aligned records of one file
PassesRule(lines, mate_lines, out_lines, read_num) ==
    /\ Len(out_lines) = Len(lines)
    /\ \A k \in 1..Len(lines) :
           IF k \in AlignedRecords(lines)
                  /\ AlignedRecords(mate_lines) # {}
                  /\ Cardinality(AlignedRecords(lines)) # 1
                  /\ ~InAGoodPair(lines[k], mate_lines, read_num)
           THEN out_lines[k] = [lines[k] EXCEPT !.tags = Append(@, "ZP:Z:fail")]
           ELSE out_lines[k] = lines[k]

\* C22: an alignment passes when its mate has no alignments, passes when it
\* is the only alignment of its read, and otherwise passes exactly when it
\* makes, with one of the mate's alignments, a pair whose insert size is in
\* [low, high] and whose orientation is the correct orientation; filter_sam
\* writes every line of its input, unaltered except for ZP:Z:fail appended to
\* the failing records.
C22_PassesExactlyInAGoodPair ==
    Called("filter_sams") =>
        /\ PassesRule(call.in1, call.in2, outcome.value.out1, 1)
        /\ PassesRule(call.in2, call.in1, outcome.value.out2, 2)

----------------------------------------------------------------------------
(* polypolish: an alignment is loaded, filtered and piled up.                *)

\* polypolish's filter_alignments on the alignments of one read
filter_alignments_of_read(read_alignments, max_errors) ==
    SelectSeq(read_alignments, LAMBDA a :
        starts_and_ends_with_match(a.sam_cigar) /\ a.mismatches <= max_errors)

\* an Alignment loaded from a SAM line: sam_cigar is the CIGAR field as
\* written, mismatches the NM tag
LoadedAlignment(ref_start, ops, read_seq, mismatches) ==
    [ref_name |-> "t", ref_start |-> ref_start,
     cigar |-> parse_cigar(CigarString(ops)),
     ref_end |-> get_ref_end(ref_start, parse_cigar(CigarString(ops))),
     read_seq |-> read_seq,
     sam_cigar |-> CigarString(ops), mismatches |-> mismatches]

\* up to n operations: matches of every size, insertions and deletions of
\* one base
RECURSIVE AlignerBodies(_)
AlignerBodies(n) ==
    IF n = 0 THEN {}
    ELSE LET one == {<< <<size, "M">> >> : size \in 1..MaxSize}
                    \cup {<< <<1, "I">> >>, << <<1, "D">> >>}
         IN one \cup {l \o o : l \in AlignerBodies(n - 1), o \in one}

\* the CIGARs the aligner writes: M, I and D operations, with a clip before
\* or after them or neither
AlignerOps ==
    {clips[1] \o body \o clips[2] :
         body \in AlignerBodies(MaxOps + 1),
         clips \in {<< <<>>, <<>> >>,
                    << << <<1, "S">> >>, <<>> >>,
                    << <<>>, << <<1, "S">> >> >>,
                    << << <<1, "H">> >>, <<>> >>}}

\* a read of one base repeated
Homopolymer(n) == [k \in 1..n |-> "A"]

\* the target the alignments lie on
PileupTarget == ReadOfLength((MaxOps + 1) * MaxSize + 1)

\* one aligned read: a read of several bases or of one base repeated, with no
\* or two mismatches
GetPileupCalls ==
    {[fn |-> "get_pileup",
      alignment |-> LoadedAlignment(ref_start, ops,
                        IF variant = "homopolymer"
                        THEN Homopolymer(OpsLength(ops, {"M", "I", "S"}))
                        ELSE ReadOfLength(OpsLength(ops, {"M", "I", "S"})),
                        IF variant = "mismatches" THEN 2 ELSE 0),
      max_errors |-> 1] :
         ops \in AlignerOps, ref_start \in {0, 1},
         variant \in {"mixed", "homopolymer", "mismatches"}}

\* load_alignments has filtered the alignment; get_pileup piles up what is kept
call_get_pileup ==
    /\ pc = "call"
    /\ call.fn = "get_pileup"
    /\ \E kept \in {filter_alignments_of_read(<<call.alignment>>, call.max_errors)} :
           outcome' =
               IF kept # <<>> /\ get_read_bases_error(kept[1]) # ""
               THEN [ok |-> FALSE, error |-> get_read_bases_error(kept[1]), kept |-> kept]
               ELSE LET p == get_pileup(<< <<"read_1", kept>> >>, "t", PileupTarget)
                    IN IF p.ok
                       THEN [ok |-> TRUE,
                             value |-> [pileup |-> p.pileup,
                                        depths_by_pos |-> p.depths_by_pos],
                             kept |-> kept]
                       ELSE [ok |-> FALSE, error |-> "IndexError", kept |-> kept]
    /\ pc' = "returned"
    /\ UNCHANGED <<call, main_vars>>

\* C26: for every alignment that filter_alignments keeps, the homopolymer-tail
\* trimming of get_pileup completes normally: it never reads or pops from an
\* empty list, also when all the groups of the alignment are the same.
C26_TrimmingCompletesNormally ==
    Called("get_pileup") /\ outcome.kept # <<>> =>
        outcome.ok \/ outcome.error # "IndexError"

\* the groups of an alignment, one per reference position
GroupsOf(a) == get_read_bases_for_each_target_base(a)

----------------------------------------------------------------------------
(* The selection pipeline: no round leaves an aligned read unaligned.        *)

\* s is t with some of its elements left out
RECURSIVE IsSubList(_, _)
IsSubList(s, t) ==
    IF s = <<>> THEN TRUE
    ELSE IF t = <<>> THEN FALSE
    ELSE IF Head(s) = Head(t) THEN IsSubList(Tail(s), Tail(t))
    ELSE IsSubList(s, Tail(t))

\* every read's list after a step is a sub-list of its list before the step,
\* and not empty unless it was
KeepsAligned(after, earlier) ==
    \A r \in DOMAIN earlier :
        /\ IsSubList(after[r], earlier[r])
        /\ earlier[r] # <<>> => after[r] # <<>>

\* C25: through every selection round (insert size, reference-informed,
\* final), in whatever order they are run, each read's alignment list is a
\* sub-list of its list before the round, and a read with an alignment before
\* a round still has one after it.
C25_RoundsKeepAlignedReadsAligned ==
    /\ KeepsAligned(alignments, before)
    /\ (run = 1 /\ pc \in {"insert_size", "select_best", "final", "verify"}) =>
           /\ KeepsAligned(select_alignments_using_insert_size_loop(
                               alignments, read_pair_names, distribution),
                           alignments)
           /\ \E st \in {final_alignment_selection_loop(
                             [ok |-> TRUE, al |-> alignments, rng |-> rng,
                              insert_decision_count |-> 0, random_decision_count |-> 0],
                             read_pair_names, distribution)} :
                  st.ok /\ KeepsAligned(st.al, alignments)
           /\ pc \in {"select_best", "final", "verify"} =>
                  KeepsAligned(select_best_alignments_loop(
                                   alignments,
                                   get_multi_alignment_read_names(read_pair_names, alignments),
                                   mask_positions, target_seqs_dict),
                               alignments)

\* the three rounds have run in main's order and each has dropped an alignment
\* of a read: the read that had two alignments at the start has one
C25_Witness ==
    /\ pc = "verify"
    /\ \E r \in DOMAIN alignments :
           /\ Len(aligner_output[r]) = 2
           /\ Len(before[r]) = 2
           /\ Len(alignments[r]) = 1
    /\ \E r \in DOMAIN alignments :
           /\ Len(aligner_output[r]) = 2
           /\ Len(before[r]) = 1
           /\ Len(alignments[r]) = 1

----------------------------------------------------------------------------
(* insert_size.py: final_alignment_selection on one read pair.               *)

\* alignments next to each other and farther apart on the target
SpreadPlacements ==
    {[ref_start |-> ref_start, ref_end |-> ref_start + MaxSize] :
         ref_start \in {0, 1, MaxInsert \div 4, MaxInsert \div 2}}

\* the alignments of the two mates of one pair, the distribution and the
\* state of the random generator
FinalAlignmentSelectionCalls ==
    {[fn |-> "final_alignment_selection",
      alignments |-> (<<1, 1>> :> l_1) @@ (<<1, 2>> :> l_2),
      distribution |-> dist,
      read_pair_names |-> <<1>>,
      rng |-> state] :
         l_1 \in ListsOf(SpreadPlacements, MaxAlign),
         l_2 \in ListsOf(SpreadPlacements, MaxAlign),
         dist \in Distributions,
         state \in 0..MaxSeed}

call_final_alignment_selection ==
    /\ pc = "call"
    /\ call.fn = "final_alignment_selection"
    /\ \E st \in {final_alignment_selection_loop(
                      [ok |-> TRUE, al |-> call.alignments, rng |-> call.rng,
                       insert_decision_count |-> 0, random_decision_count |-> 0],
                      call.read_pair_names, call.distribution)} :
           outcome' = IF st.ok THEN Returned(st) ELSE Raised("AssertionError")
    /\ pc' = "returned"
    /\ UNCHANGED <<call, main_vars>>

\* one of the four handled cases of final_alignment_selection
HandledCase(count_1, count_2) ==
    \/ count_1 <= 1 /\ count_2 <= 1
    \/ count_1 > 1 /\ count_2 = 0
    \/ count_1 = 0 /\ count_2 > 1
    \/ count_1 >= 1 /\ count_2 >= 1 /\ count_1 + count_2 >= 3

\* the fourth case: both mates aligned, three or more alignments together
FourthCase(count_1, count_2) ==
    count_1 >= 1 /\ count_2 >= 1 /\ count_1 + count_2 >= 3

\* the scores of the combinations of the alignments of two mates
CombinationScores(l_1, l_2, dist) ==
    {score_insert_size(Span(Coordinates(l_1[j], l_2[k])), dist) :
         j \in 1..Len(l_1), k \in 1..Len(l_2)}

\* C24: the four handled cases of final_alignment_selection cover every pair
\* of alignment counts, so its last branch (assert False) is never reached,
\* and in the fourth case the list of best-scoring combinations is never
\* empty.
C24_FinalSelectionCasesCoverAllCounts ==
    /\ \A count_1, count_2 \in 0..(MaxAlign + 1) : HandledCase(count_1, count_2)
    /\ Called("final_alignment_selection") =>
           LET l_1 == call.alignments[<<1, 1>>]
               l_2 == call.alignments[<<1, 2>>]
           IN /\ outcome.ok
              /\ HandledCase(Len(l_1), Len(l_2))
              /\ FourthCase(Len(l_1), Len(l_2)) =>
                     /\ good_pairs_of(l_1, l_2, call.distribution,
                                      max_score_of(l_1, l_2, call.distribution)) # <<>>
                     /\ Len(outcome.value.al[<<1, 1>>]) = 1
                     /\ Len(outcome.value.al[<<1, 2>>]) = 1
                     /\ outcome.value.insert_decision_count
                            + outcome.value.random_decision_count = 1

\* two alignments for each mate, every combination outside every band
C24_Witness ==
    /\ Called("final_alignment_selection")
    /\ Len(call.alignments[<<1, 1>>]) = 2
    /\ Len(call.alignments[<<1, 2>>]) = 2
    /\ CombinationScores(call.alignments[<<1, 1>>], call.alignments[<<1, 2>>],
                         call.distribution) = {0}
    /\ outcome.ok
    /\ outcome.value.random_decision_count = 1

----------------------------------------------------------------------------
(* insert_size.py: set_sam_flags on one read pair.                           *)

\* Alignment.make_unaligned: the flags and the CIGAR change, the place stays
make_unaligned(a) == [a EXCEPT !.flags = 5, !.cigar = Star]

\* the new flags of the record of one read; unaligned is the map after
\* make_unaligned
new_flags_of(al, unaligned, name, dist) ==
    LET a == IF al[name] = <<>> THEN unaligned[name] ELSE al[name][1]
        pair_alignments == al[<<name[1], 3 - name[2]>>]
        paired == 1
        unmapped == IF ~is_aligned(a) THEN 4 ELSE 0
        in_pair == IF name[2] = 1 THEN 64 ELSE 128
        reverse == IF is_on_reverse_strand(a) THEN 16 ELSE 0
        mate == IF pair_alignments = <<>> THEN 8
                ELSE (IF score_insert_size(get_insert_size(a, pair_alignments[1]), dist) >= 3
                      THEN 2 ELSE 0)
                     + (IF is_on_reverse_strand(pair_alignments[1]) THEN 32 ELSE 0)
    IN paired + unmapped + in_pair + reverse + mate

\* set_sam_flags: the flags of the record of every read, or the failed
\* assertion
set_sam_flags(al, unaligned, pair_names, dist) ==
    LET made == [r \in DOMAIN unaligned |-> make_unaligned(unaligned[r])]
        read_names == first_then_second_reads(pair_names)
    IN IF \E k \in 1..Len(read_names) : Len(al[read_names[k]]) > 1
       THEN Raised("AssertionError")
       ELSE Returned([r \in Range(read_names) |-> new_flags_of(al, made, r, dist)])

\* an alignment as loaded: its flags, CIGAR and place
PlacedRecord(flags, placement) ==
    [flags |-> flags, cigar |-> CigarString(<< <<MaxSize, "M">> >>),
     ref_start |-> placement.ref_start, ref_end |-> placement.ref_end]

\* the record the aligner writes for a read it could not place: flags 4,
\* position 0, CIGAR *
NotPlacedRecord == [flags |-> 4, cigar |-> Star, ref_start |-> 0 - 1, ref_end |-> 0 - 1]

\* the state of one read after the selection: its surviving alignment, or no
\* alignment and its unaligned record (from the aligner, or an alignment that
\* filter_alignments discarded)
ReadStates ==
    {[alignments |-> <<PlacedRecord(flags, placement)>>, unaligned |-> <<>>] :
         flags \in {0, 16}, placement \in SpreadPlacements}
    \cup {[alignments |-> <<>>, unaligned |-> <<NotPlacedRecord>>]}
    \cup {[alignments |-> <<>>, unaligned |-> <<PlacedRecord(flags, placement)>>] :
              flags \in {0, 16}, placement \in SpreadPlacements}

SetSamFlagsCalls ==
    {[fn |-> "set_sam_flags",
      alignments |-> (<<1, 1>> :> read_1.alignments) @@ (<<1, 2>> :> read_2.alignments),
      unaligned |-> [r \in {q \in {<<1, 1>>, <<1, 2>>} :
                               (IF q[2] = 1 THEN read_1 ELSE read_2).unaligned # <<>>}
                         |-> (IF r[2] = 1 THEN read_1 ELSE read_2).unaligned[1]],
      read_pair_names |-> <<1>>,
      distribution |-> dist] :
         read_1 \in ReadStates, read_2 \in ReadStates, dist \in Distributions}

call_set_sam_flags ==
    /\ pc = "call"
    /\ call.fn = "set_sam_flags"
    /\ outcome' = set_sam_flags(call.alignments, call.unaligned, call.read_pair_names,
                                call.distribution)
    /\ pc' = "returned"
    /\ UNCHANGED <<call, main_vars>>

\* C28: after set_sam_flags the flags of every read's record have bit 1,
\* exactly one of bits 64 and 128, bit 4 exactly when the read has no
\* surviving alignment and bit 8 exactly when its mate has none, and never
\* both the unmapped bit 4 and the proper-pair bit 2.
C28_FlagsAreConsistent ==
    Called("set_sam_flags") =>
        /\ outcome.ok
        /\ \A r \in DOMAIN call.alignments :
               LET flags == outcome.value[r]
                   mate == <<r[1], 3 - r[2]>>
               IN /\ BitSet(flags, 1)
                  /\ BitSet(flags, 64) # BitSet(flags, 128)
                  /\ BitSet(flags, 4) = (call.alignments[r] = <<>>)
                  /\ BitSet(flags, 8) = (call.alignments[mate] = <<>>)
                  /\ ~(BitSet(flags, 4) /\ BitSet(flags, 2))

----------------------------------------------------------------------------
(* repeatish/__main__.py and alignment.py: from the aligner's output to the  *)
(* records written to stdout.                                                *)

\* str() of an int that may be negative
str_of_int(n) == IF n < 0 THEN <<"-">> \o str(0 - n) ELSE str(n)

\* one alignment line of the aligner's output (unpaired alignment: RNEXT is
\* '*', PNEXT and TLEN are 0)
AlignerLine(read_name, flags, ref_name, pos, cigar, read_seq, nm) ==
    [read_name |-> read_name, flags |-> str(flags), ref_name |-> ref_name,
     pos |-> str(pos), cigar |-> cigar, rnext |-> Star, pnext |-> str(0),
     tlen |-> str(0), read_seq |-> read_seq, nm |-> nm]

\* Alignment.__init__: the fields, and the parts that get_sam_line joins
AlignmentOfLine(line) ==
    [read_name |-> line.read_name,
     flags |-> int(line.flags),
     ref_name |-> line.ref_name,
     ref_start |-> int(line.pos) - 1,
     cigar |-> line.cigar,
     ref_end |-> get_ref_end(int(line.pos) - 1, parse_cigar(line.cigar)),
     read_seq |-> line.read_seq,
     nm_tag |-> line.nm,
     parts |-> [flags |-> line.flags, ref_name |-> line.ref_name, pos |-> line.pos,
                cigar |-> line.cigar, rnext |-> <<"=">>, pnext |-> line.pnext,
                tlen |-> line.tlen]]

\* the loading loop of align_with_minimap2: [alignments, unaligned]
align_with_minimap2(lines, pair_names) ==
    LET read_names == read_names_in_order(pair_names)
        RECURSIVE Go(_, _)
        Go(st, k) ==
            IF k > Len(lines) THEN st
            ELSE LET alignment == AlignmentOfLine(lines[k])
                 IN IF is_aligned(alignment)
                    THEN Go([st EXCEPT !.alignments[alignment.read_name] =
                                           Append(@, alignment)], k + 1)
                    ELSE Go([st EXCEPT !.unaligned =
                                           (alignment.read_name :> alignment) @@ @], k + 1)
    IN Go([alignments |-> [r \in Range(read_names) |-> <<>>],
           unaligned |-> [r \in {} |-> <<>>]], 1)

\* the setters of Alignment
set_flags(a, flags) == [a EXCEPT !.flags = flags, !.parts.flags = str(flags)]

set_ref_name(a, ref_name) == [a EXCEPT !.ref_name = ref_name, !.parts.ref_name = ref_name]

set_ref_start(a, ref_start) ==
    [a EXCEPT !.ref_start = ref_start, !.parts.pos = str(ref_start + 1)]

set_cigar(a, cigar) == [a EXCEPT !.cigar = cigar, !.parts.cigar = cigar]

set_rnext(a, rnext) == [a EXCEPT !.parts.rnext = rnext]

set_pnext(a, pnext) == [a EXCEPT !.parts.pnext = str(pnext + 1)]

set_tlen(a, tlen) == [a EXCEPT !.parts.tlen = str_of_int(tlen)]

get_sam_line(a) == a.parts

\* the selection rounds read the CIGAR of an alignment as its operations
RECURSIVE WithOperations(_, _)
WithOperations(al, read_names) ==
    IF read_names = <<>> THEN << >>
    ELSE (Head(read_names) :> [k \in 1..Len(al[Head(read_names)]) |->
                                  [al[Head(read_names)][k] EXCEPT !.cigar = parse_cigar(@)]])
         @@ WithOperations(al, Tail(read_names))

\* the reads whose record set_sam_flags, fix_sam_pairing and
\* output_alignments_to_stdout look up in the unaligned map
LooksUpUnaligned(st, pair_names) ==
    {r \in Range(read_names_in_order(pair_names)) : st.alignments[r] = <<>>}

\* set_sam_flags on [alignments, unaligned]
set_sam_flags_of_records(st, pair_names, dist) ==
    LET made == [r \in DOMAIN st.unaligned |->
                     set_cigar([st.unaligned[r] EXCEPT !.flags = 5], Star)]
        flagged(r) == new_flags_of(st.alignments, made, r, dist)
    IN [alignments |-> [r \in DOMAIN st.alignments |->
                            IF st.alignments[r] = <<>> THEN <<>>
                            ELSE <<set_flags(st.alignments[r][1], flagged(r))>>],
        unaligned |-> [r \in DOMAIN made |->
                           IF st.alignments[r] = <<>> THEN set_flags(made[r], flagged(r))
                           ELSE made[r]]]

\* fix_sam_pairing, one read pair
fix_sam_pairing_one_pair(st, name) ==
    LET name_1 == <<name, 1>>
        name_2 == <<name, 2>>
        alignments_1 == st.alignments[name_1]
        alignments_2 == st.alignments[name_2]
        neither(a) == set_tlen(set_pnext(set_rnext(set_ref_start(
                          set_ref_name(a, Star), 0 - 1), Star), 0 - 1), 0)
        beside(a, mate) == set_pnext(set_ref_start(set_ref_name(a, mate.ref_name),
                                                   mate.ref_start), mate.ref_start)
        tlen == Max(alignments_1[1].ref_end, alignments_2[1].ref_end)
                    - Min(alignments_1[1].ref_start, alignments_2[1].ref_start)
        first_is_left == alignments_1[1].ref_start < alignments_2[1].ref_start
    IN IF alignments_1 = <<>> /\ alignments_2 = <<>>
       THEN [st EXCEPT !.unaligned[name_1] = neither(@),
                       !.unaligned[name_2] = neither(@)]
       ELSE IF alignments_1 # <<>> /\ alignments_2 = <<>>
       THEN [st EXCEPT !.unaligned[name_2] = beside(@, alignments_1[1]),
                       !.alignments[name_1][1] = set_pnext(@, @.ref_start)]
       ELSE IF alignments_1 = <<>> /\ alignments_2 # <<>>
       THEN [st EXCEPT !.unaligned[name_1] = beside(@, alignments_2[1]),
                       !.alignments[name_2][1] = set_pnext(@, @.ref_start)]
       ELSE [st EXCEPT !.alignments[name_1][1] =
                           set_tlen(set_pnext(@, alignments_2[1].ref_start),
                                    IF first_is_left THEN tlen ELSE 0 - tlen),
                       !.alignments[name_2][1] =
                           set_tlen(set_pnext(@, alignments_1[1].ref_start),
                                    IF first_is_left THEN 0 - tlen ELSE tlen)]

RECURSIVE fix_sam_pairing(_, _)
fix_sam_pairing(st, pair_names) ==
    IF pair_names = <<>> THEN st
    ELSE fix_sam_pairing(fix_sam_pairing_one_pair(st, Head(pair_names)), Tail(pair_names))

\* output_alignments_to_stdout: the lines printed after the header, each with
\* the read it is of
RECURSIVE output_alignments_to_stdout(_, _)
output_alignments_to_stdout(st, pair_names) ==
    IF pair_names = <<>> THEN <<>>
    ELSE LET of_read(r) ==
                 [k \in 1..Len(st.alignments[r]) |->
                      [read |-> r, line |-> get_sam_line(st.alignments[r][k])]]
                 \o (IF st.alignments[r] = <<>>
                     THEN <<[read |-> r, line |-> get_sam_line(st.unaligned[r])]>>
                     ELSE <<>>)
         IN of_read(<<Head(pair_names), 1>>) \o of_read(<<Head(pair_names), 2>>)
            \o output_alignments_to_stdout(st, Tail(pair_names))

\* main() after the selection rounds, from verify_no_multi_alignments to
\* output_alignments_to_stdout: the alignments and the unaligned map after
\* every step since filter_alignments, and what was printed or the exception
\* that ended the run. rounds holds the alignments after filter_alignments,
\* select_alignments_using_insert_size and select_best_alignments; final is
\* what final_alignment_selection left
main_after_selection(unaligned_map, rounds, masked_ok, final, pair_names, dist) ==
    LET point(al) == [alignments |-> al, unaligned |-> unaligned_map]
        selected == point(final.al)
        flagged == set_sam_flags_of_records(selected, pair_names, dist)
        paired == fix_sam_pairing(flagged, pair_names)
        failed(points, error) == [ok |-> FALSE, points |-> points, error |-> error]
    IN IF ~masked_ok
       THEN failed(<<point(rounds[1]), point(rounds[2])>>, "IndexError")
       ELSE IF ~final.ok
       THEN failed(<<point(rounds[1]), point(rounds[2]), point(rounds[3])>>,
                   "AssertionError")
       ELSE IF ~verify_no_multi_alignments_ok(final.al, pair_names)
       THEN failed(<<point(rounds[1]), point(rounds[2]), point(rounds[3]), selected>>,
                   "AssertionError")
       ELSE IF ~(LooksUpUnaligned(selected, pair_names) \subseteq DOMAIN unaligned_map)
       THEN failed(<<point(rounds[1]), point(rounds[2]), point(rounds[3]), selected>>,
                   "KeyError")
       ELSE [ok |-> TRUE,
             points |-> <<point(rounds[1]), point(rounds[2]), point(rounds[3]), selected,
                          flagged, paired>>,
             stdout |-> output_alignments_to_stdout(paired, pair_names)]

\* what the aligner can report for the two reads of a pair: end-to-end
\* placements, one on the reverse strand, and one alignment that
\* filter_alignments discards (soft-clipped, or with too many mismatches)
AlignerLinesOf(read) ==
    IF read[2] = 1
    THEN << AlignerLine(read, 0, "t1", 1, CigarString(<< <<5, "M">> >>), Seq1, 0),
            AlignerLine(read, 16, "t1", 6, CigarString(<< <<5, "M">> >>), Seq1, 0),
            AlignerLine(read, 0, "t2", 1, CigarString(<< <<1, "S">>, <<4, "M">> >>),
                        Seq1, 0) >>
    ELSE << AlignerLine(read, 16, "t1", 8, CigarString(<< <<5, "M">> >>), Seq2, 0),
            AlignerLine(read, 0, "t1", 4, CigarString(<< <<5, "M">> >>), Seq2, 2),
            AlignerLine(read, 0, "t1", 4, CigarString(<< <<5, "M">> >>), Seq2, 0) >>

\* the line of a read the aligner could not place: flags 4, no reference, no
\* CIGAR
NotPlacedLine(read) == AlignerLine(read, 4, Star, 0, Star, Seq3, 0 - 1)

\* the aligner's lines for a read: some of its alignments, or the line that
\* says it could not be placed
LinesOfRead(read) ==
    {IF l = <<>> THEN <<NotPlacedLine(read)>> ELSE l :
         l \in SubLists(AlignerLinesOf(read), MaxAlign)}

OutputCalls ==
    {[fn |-> "output_alignments_to_stdout",
      loaded |-> align_with_minimap2(lines_1 \o lines_2, <<1>>),
      read_pair_names |-> <<1>>,
      max_errors |-> 1,
      distribution |-> dist,
      seed |-> seed_value] :
         lines_1 \in LinesOfRead(<<1, 1>>), lines_2 \in LinesOfRead(<<1, 2>>),
         dist \in Distributions, seed_value \in {0, 1}}

\* main() from filter_alignments (in align_reads) to
\* output_alignments_to_stdout
call_output_alignments_to_stdout ==
    /\ pc = "call"
    /\ call.fn = "output_alignments_to_stdout"
    /\ \E filtered \in {filter_alignments(call.loaded.alignments, call.read_pair_names,
                                          call.max_errors, call.loaded.unaligned)} :
       \E start \in {WithOperations(filtered.alignments,
                                    read_names_in_order(call.read_pair_names))} :
       \E by_insert_size \in {select_alignments_using_insert_size_loop(
                                  start, call.read_pair_names, call.distribution)} :
       \E masked \in {mask_target_sequences(
                          DictItems(read_names_in_order(call.read_pair_names),
                                    by_insert_size),
                          TargetSeqs)} :
       \E best \in {IF masked.ok
                    THEN select_best_alignments_loop(
                             by_insert_size,
                             get_multi_alignment_read_names(call.read_pair_names,
                                                            by_insert_size),
                             masked.mask_positions, target_seqs_dict)
                    ELSE by_insert_size} :
       \E final \in {final_alignment_selection_loop(
                         [ok |-> TRUE, al |-> best, rng |-> random_seed(call.seed, 0),
                          insert_decision_count |-> 0, random_decision_count |-> 0],
                         call.read_pair_names, call.distribution)} :
           outcome' = main_after_selection(filtered.unaligned,
                                           <<start, by_insert_size, best>>, masked.ok,
                                           final, call.read_pair_names, call.distribution)
    /\ pc' = "returned"
    /\ UNCHANGED <<call, main_vars>>

\* the reads of the call
ReadsOfCall == Range(read_names_in_order(call.read_pair_names))

\* C29: the aligner reports an unaligned record for every read it could not
\* place; then at every point from filter_alignments to the output a read
\* with an empty alignment list has an entry in the unaligned map, no step
\* looks up a missing entry, and what is printed is exactly one record for
\* each mate of the pair, the first mate's before the second's: the surviving
\* alignment, or else the unaligned record.
C29_EveryMateGetsOneRecord ==
    Called("output_alignments_to_stdout") =>
        /\ \A k \in 1..Len(outcome.points) :
               \A r \in ReadsOfCall :
                   outcome.points[k].alignments[r] = <<>>
                       => r \in DOMAIN outcome.points[k].unaligned
        /\ ~outcome.ok => outcome.error # "KeyError"
        /\ outcome.ok =>
               LET last == outcome.points[Len(outcome.points)]
                   record_of(r) == IF last.alignments[r] = <<>> THEN last.unaligned[r]
                                   ELSE last.alignments[r][1]
               IN outcome.stdout =
                      [k \in 1..2 |-> [read |-> <<1, k>>,
                                       line |-> get_sam_line(record_of(<<1, k>>))]]

\* both kinds of unaligned record are printed: the first read could not be
\* placed, every alignment of the second was discarded
C29_Witness ==
    /\ Called("output_alignments_to_stdout")
    /\ outcome.ok
    /\ call.loaded.alignments[<<1, 1>>] = <<>>
    /\ call.loaded.alignments[<<1, 2>>] # <<>>
    /\ outcome.points[1].alignments[<<1, 2>>] = <<>>
    /\ Len(outcome.stdout) = 2

----------------------------------------------------------------------------
(* polish_targets.py: the depth of a position and its counts.                 *)

\* the sum of the counts of the base-groups of one position
RECURSIVE SumOfCounts(_)
SumOfCounts(read_base_counts) ==
    IF DOMAIN read_base_counts = {} THEN 0
    ELSE LET bases == CHOOSE b \in DOMAIN read_base_counts : TRUE
         IN read_base_counts[bases]
            + SumOfCounts([b \in DOMAIN read_base_counts \ {bases} |-> read_base_counts[b]])

\* C30: in the pileup of a target the depth of every position is at most the
\* sum of the counts of its base-groups, and equal to it exactly when every
\* read with an alignment counted there has a single alignment; every count
\* is on a position of the target, from an alignment whose
\* [ref_start, ref_end) holds the position.
C30_DepthIsAtMostTheCounts ==
    Polished =>
        /\ DOMAIN pileup = PolishedPositions
        /\ \A i \in PolishedPositions :
               \E counted \in {Contributors(i)} :
               \E count \in {SumOfCounts(pileup[i])} :
                   /\ depths_by_pos[i] <= DepthUnit * count
                   /\ (depths_by_pos[i] = DepthUnit * count)
                          = (\A rk \in counted : Len(alignments[rk[1]]) = 1)
                   /\ count = Cardinality(counted)
                   /\ \A rk \in counted :
                          /\ alignments[rk[1]][rk[2]].ref_start <= i
                          /\ i < alignments[rk[1]][rk[2]].ref_end

\* one position has the counts of reads with a single alignment each and a
\* depth equal to their sum, another has a count of a read with two
\* alignments and a smaller depth
C30_Witness ==
    /\ Polished
    /\ \E i \in PolishedPositions :
           /\ SumOfCounts(pileup[i]) >= 2
           /\ depths_by_pos[i] = DepthUnit * SumOfCounts(pileup[i])
    /\ \E i \in PolishedPositions :
           /\ \E rk \in Contributors(i) : Len(alignments[rk[1]]) = 2
           /\ depths_by_pos[i] < DepthUnit * SumOfCounts(pileup[i])

----------------------------------------------------------------------------
(* The functions under test, one call each.                                  *)

InitCalls ==
    /\ CallState
    /\ \/ call \in GetRefEndCalls
       \/ call \in GetExpandedCigarCalls
       \/ call \in GetReadBasesCalls
       \/ call \in FilterAlignmentsCalls
       \/ call \in AddSecondaryReadSeqsCalls
       \/ call \in ScoreInsertSizeCalls
       \/ call \in GetInsertSizeCalls
       \/ call \in GetDistributionCalls
       \/ call \in GetInsertSizeDistributionCalls
       \/ call \in HasFlagCalls
       \/ call \in GetOrientationCalls
       \/ call \in FilterSamsCalls
       \/ call \in FinalAlignmentSelectionCalls
       \/ call \in GetPileupCalls
       \/ call \in SetSamFlagsCalls
       \/ call \in OutputCalls

NextCalls ==
    \/ call_get_ref_end
    \/ call_get_expanded_cigar
    \/ call_get_read_bases_for_each_target_base
    \/ call_filter_alignments
    \/ call_add_secondary_read_seqs
    \/ call_score_insert_size
    \/ call_get_insert_size
    \/ call_get_distribution
    \/ call_get_insert_size_distribution
    \/ call_has_flag
    \/ call_get_orientation
    \/ call_filter_sams
    \/ call_final_alignment_selection
    \/ call_get_pileup
    \/ call_set_sam_flags
    \/ call_output_alignments_to_stdout

SpecCalls == InitCalls /\ [][NextCalls]_vars

====
